---- MODULE Spec2Model ----
(***************************************************************************)
(* State-machine model of the escrow plugin                                *)
(* (electrum/plugins/escrow): the relay job scheduler EscrowNostrWorker    *)
(* (nostr_worker.py) and the custodian EscrowAgent (agent.py).             *)
(*                                                                         *)
(* The two components are checked under separate specifications:           *)
(*   SchedSpec / SchedFairSpec  - the scheduler                            *)
(*   AgentSpec                  - the agent's trade bookkeeping            *)
(***************************************************************************)
EXTENDS Integers, Sequences, FiniteSets, Bags, TLC

(***************************************************************************)
(* Bounds of the model.                                                    *)
(***************************************************************************)
MaxJobs == 2
MaxRequests == 4
MaxTime == 2
MaxInvoices == 2
MaxAttempts == 3
MaxPayoutTime == 4
MaxQueue == 1
MaxTs == 2
MaxTrades == 4
MaxCalls == 2
MaxStream == 1
\* the timeout_sec=30 of request_register_escrow, scaled down
REQUEST_TIMEOUT_SEC == 2

\* constants.py, with the pending capacity scaled down (200 in the source) and
\* the funding request lifetime (exp_delay=600 s) taken as the unit of time
MAX_AMOUNT_PENDING_TRADES == 2
EXP_DELAY == 1
\* the payout retry interval (1800 s), the payout timeout (7,776,000 s) and the
\* lock offset (1000000000000 s) of the payout schedule, scaled down
PAYOUT_INTERVAL_SEC == 1
PAYOUT_TIMEOUT_SEC == 2
PAYOUT_LOCK == 100
MIN_TRADE_AMOUNT_SAT == 1000
MAX_TITLE_LEN_CHARS == 100
MAX_CONTRACT_LEN_CHARS == 2000
PROTOCOL_VERSION == 1

\* TradeState (IntEnum)
WAITING_FOR_TAKER == 0
ONGOING == 1
MEDIATION == 2
FINISHED == 3
CANCELLED == 4

\* nostr event kinds (constants.py)
AGENT_STATUS_EVENT_KIND == 30315
AGENT_PROFILE_EVENT_KIND == 0
AGENT_RELAY_LIST_METADATA_KIND == 10002

\* TradePaymentProtocol, TradePaymentDirection (IntEnum)
BITCOIN_ONCHAIN == 0
BITCOIN_LIGHTNING == 1
SENDING == 0
RECEIVING == 1

Jobs == 1..MaxJobs

VARIABLES
    \* ---- EscrowNostrWorker ----
    main_task,      \* TRUE iff self.main_task is not None
    callbacks,      \* TRUE iff the event callbacks are registered
    jobs,           \* self.jobs: FIFO of job ids not yet launched
    jobs_event,     \* self.jobs_event (asyncio.Event)
    running_tasks,  \* self.running_tasks: job ids of the launched tasks
    pc,             \* position of the driver coroutine main_loop
    session,        \* TRUE iff the driver holds an entered manager context
    closing,        \* manager contexts of cancelled drivers still in __aexit__
    job_state,      \* per job id: life cycle of the job and of its task
    job_kind,       \* per job id: "fetch" (fetch_events) or "broadcast"
    launches,       \* per job id: number of asyncio.create_task(job(manager))
    put_tasks,      \* per job id: create_task(output_queue.put(None)) not yet run
    output_queue,   \* per job id: what was put on the job's output_queue
    opens,          \* number of manager contexts entered
    closes,         \* number of manager contexts exited
    session_errors, \* TRUE iff line 155 has caught an exception (history)
    \* ---- EscrowAgent ----
    pending_trades, \* self._pending_trades, in insertion order
    trades,         \* self._trades, in insertion order
    wallet_requests,\* the wallet's payment requests: key -> request
    now,            \* int(time.time()), in units of the request lifetime
    sent,           \* bag of the direct messages handed to the nostr worker
    replies,        \* bag of the ephemeral messages sent by the last handler call
    exc,            \* exception raised by the last handler call, or "none"
    next_trade_id,  \* number of trade ids issued so far, plus one
    agent_task,     \* the agent's main_loop task (and its sub-tasks): "running",
                    \* "cancel_requested" (Future.cancel() called, not yet
                    \* processed by the event loop) or "cancelled"
    agent_callbacks,\* TRUE iff the agent's event callbacks are registered
    subtasks,       \* per sub-task of the agent's main_loop: its state
    \* ---- EscrowAgent, payouts ----
    lightning_invoices_to_pay, \* self._lightning_invoices_to_pay: key -> not_before
    wallet_invoices,\* the wallet's saved invoices: key -> [time, exp]
    paying,         \* key of the invoice _pay_invoice is awaiting, or 0
    attempts,       \* per key: number of payment attempts started
    paid,           \* history: keys of the invoices a payment attempt has paid
    \* ---- EscrowClient ----
    storage_agents, \* self.storage['agents'], as a set
    agent_pubkeys,  \* the local agent_pubkeys of _fetch_agent_events
    aliased,        \* TRUE iff agent_pubkeys is the list object in the storage
    agent_infos,    \* self.agent_infos: pubkey -> EscrowAgentInfo
    event_queue,    \* the event_queue of _fetch_agent_events
    fetch_job_id,   \* self.fetch_job_id, 0 for None
    query_authors,  \* per job id: the "authors" of the submitted query
    client_pc,      \* position of _fetch_agent_events
    client_trades,  \* the client's self._trades: trade id -> trade
    client_exc,     \* exception raised by the last save_new_trade, or "none"
    relay_latest,   \* history: per pubkey, timestamp and relay list of the
                    \* newest relay-list event handled so far (the first of
                    \* those with the greatest timestamp)
    \* ---- TradeContract ----
    signed_contract,\* the contract of the last sign call, None before it
    signed_privkey,    \* the private key of the last sign call
    signature,      \* the signature returned by the last sign call
    verified,       \* contract, public key and result of the last verify call
    \* ---- EscrowClient.request_register_escrow ----
    req_pc,         \* position of the call: "idle", "waiting", "done"
    req_trade_in,   \* the trade passed to the call
    req_privkey,    \* the per-trade key of the call, None before the first
    req_key_ids,    \* history: the key_id of every call so far
    req_timeout_sec,\* timeout_sec of the wait for the response
    req_elapsed,    \* int(time.time()) - query_start, up to the timeout
    req_waited,     \* seconds the current wait_for2 has waited
    req_queue,      \* response_queue
    req_job,        \* job_id: "none", or the job is "live" or "ended"
    req_uncancelled,\* subscription jobs submitted and not cancelled
    req_broadcasts, \* _broadcast_event calls of the call
    req_exc,        \* exception the call has ended with, or "none"
    req_returned,   \* the pair returned by the call, or None
    client_invoices,\* keys of the invoices of the client's wallet
    \* ---- EscrowClient: postbox ----
    pb_maker_trade, \* the maker's trade of create_trade_postbox, None before
    pb_postbox_key, \* the token returned by create_trade_postbox
    pb_maker_exc,   \* exception raised by create_trade_postbox, or "none"
    pb_events,      \* the direct messages stored on the relays
    pb_pc,          \* position of create_trade_from_postbox
    pb_token,       \* the postbox_key passed to create_trade_from_postbox
    pb_privkey,     \* postbox_privkey of the call
    pb_jobs,        \* jobs the call has submitted to the relay scheduler
    pb_uncancelled, \* those of them not cancelled
    pb_exc,         \* exception raised by the call, or "none"
    pb_result       \* the trade returned by the call, or None

sched_vars == <<main_task, callbacks, jobs, jobs_event, running_tasks, pc,
                session, closing, job_state, job_kind, launches,
                put_tasks, output_queue, opens, closes, session_errors>>

agent_vars == <<pending_trades, trades, wallet_requests, now, sent, replies, exc,
                next_trade_id>>

life_vars == <<agent_task, agent_callbacks, subtasks>>

\* the variables that neither the scheduler nor the agent's handlers change
payout_vars == <<lightning_invoices_to_pay, wallet_invoices, paying, attempts, paid>>

client_vars == <<storage_agents, agent_pubkeys, aliased, agent_infos, event_queue,
                 fetch_job_id, query_authors, client_pc, client_trades, client_exc,
                 relay_latest>>

contract_vars == <<signed_contract, signed_privkey, signature, verified>>

request_vars == <<req_pc, req_trade_in, req_privkey, req_key_ids, req_timeout_sec,
                  req_elapsed, req_waited, req_queue, req_job, req_uncancelled,
                  req_broadcasts, req_exc, req_returned, client_invoices>>

postbox_vars == <<pb_maker_trade, pb_postbox_key, pb_maker_exc, pb_events, pb_pc,
                  pb_token, pb_privkey, pb_jobs, pb_uncancelled, pb_exc, pb_result>>

more_vars == <<contract_vars, request_vars, postbox_vars>>

rest_vars == <<life_vars, payout_vars, client_vars, more_vars>>

vars == <<sched_vars, agent_vars, rest_vars>>

Range(s) == {s[i] : i \in 1..Len(s)}

RemoveAt(s, i) == SubSeq(s, 1, i - 1) \o SubSeq(s, i + 1, Len(s))

IndexOf(s, x) == CHOOSE i \in 1..Len(s) : s[i] = x

(***************************************************************************)
(* Task states.  "created": asyncio.create_task was called, the coroutine  *)
(* has not run its first step.  "running": the coroutine is inside its     *)
(* try block.  "cancelled*": ended by the task.cancel() of cancel_job,     *)
(* "torn_down*": ended by the task.cancel() of main_loop's finally clause; *)
(* "*_unstarted": the coroutine was cancelled before its first step.  A    *)
(* task in DoneStates is finished; it stays in running_tasks until the     *)
(* driver reaps it or clears the set.                                      *)
(***************************************************************************)
DoneStates == {"finished", "failed", "cancelled", "cancelled_unstarted",
               "torn_down", "torn_down_unstarted"}

Submitted == {j \in Jobs : job_state[j] # "none"}

DoneTasks == {j \in running_tasks : job_state[j] \in DoneStates}

(***************************************************************************)
(* EscrowNostrWorker.__init__, EscrowAgent.__init__ and                    *)
(* EscrowClient.__init__ (empty storage); the workers' main loops run.     *)
(***************************************************************************)
Init ==
    /\ main_task = FALSE
    /\ callbacks = TRUE
    /\ jobs = <<>>
    /\ jobs_event = FALSE
    /\ running_tasks = {}
    /\ pc = "none"
    /\ session = FALSE
    /\ closing = 0
    /\ job_state = [j \in Jobs |-> "none"]
    /\ job_kind = [j \in Jobs |-> "none"]
    /\ launches = [j \in Jobs |-> 0]
    /\ put_tasks = [j \in Jobs |-> 0]
    /\ output_queue = [j \in Jobs |-> <<>>]
    /\ opens = 0
    /\ closes = 0
    /\ session_errors = FALSE
    /\ pending_trades = <<>>
    /\ trades = <<>>
    /\ wallet_requests = <<>>
    /\ now = 0
    /\ sent = EmptyBag
    /\ replies = EmptyBag
    /\ exc = "none"
    /\ next_trade_id = 1
    /\ agent_task = "running"
    /\ agent_callbacks = TRUE
    /\ subtasks = [t \in 1..6 |-> "unspawned"]
    /\ lightning_invoices_to_pay = <<>>
    /\ wallet_invoices = <<>>
    /\ paying = 0
    /\ attempts = [k \in 1..MaxInvoices |-> 0]
    /\ paid = {}
    /\ storage_agents = {}
    /\ agent_pubkeys = {}
    /\ aliased = FALSE
    /\ agent_infos = <<>>
    /\ event_queue = <<>>
    /\ fetch_job_id = 0
    /\ query_authors = [j \in Jobs |-> {}]
    /\ client_pc = "poll"
    /\ client_trades = <<>>
    /\ client_exc = "none"
    /\ relay_latest = <<>>
    /\ signed_contract = <<>>
    /\ signed_privkey = <<>>
    /\ signature = <<>>
    /\ verified = <<>>
    /\ req_pc = "idle"
    /\ req_trade_in = <<>>
    /\ req_privkey = <<>>
    /\ req_key_ids = <<>>
    /\ req_timeout_sec = 0
    /\ req_elapsed = 0
    /\ req_waited = 0
    /\ req_queue = <<>>
    /\ req_job = "none"
    /\ req_uncancelled = 0
    /\ req_broadcasts = 0
    /\ req_exc = "none"
    /\ req_returned = <<>>
    /\ client_invoices = {}
    /\ pb_maker_trade = <<>>
    /\ pb_postbox_key = <<>>
    /\ pb_maker_exc = "none"
    /\ pb_events = {}
    /\ pb_pc = "idle"
    /\ pb_token = <<>>
    /\ pb_privkey = <<>>
    /\ pb_jobs = 0
    /\ pb_uncancelled = 0
    /\ pb_exc = "none"
    /\ pb_result = <<>>

(***************************************************************************)
(* Task.cancel() on the task of job j, as seen when the task next runs:    *)
(* a coroutine that never ran gets the CancelledError thrown at its first  *)
(* line and executes none of its body; one suspended inside the try block  *)
(* of fetch_events._job runs the finally clause, which creates the task    *)
(* that puts None on the output queue.  Cancelling a done task is a no-op. *)
(***************************************************************************)
CancelledState(st) ==
    CASE st = "created" -> "cancelled_unstarted"
      [] st = "running" -> "cancelled"
      [] OTHER -> st

TornDownState(st) ==
    CASE st = "created" -> "torn_down_unstarted"
      [] st = "running" -> "torn_down"
      [] OTHER -> st

\* Fault variant of FinallyPuts: the finally clause also runs for a task that
\* has ended.
FinallyPuts_again(j, st) ==
    IF st # "created" /\ job_kind[j] = "fetch" THEN 1 ELSE 0

FinallyPuts(j, st) ==
    IF st = "running" /\ job_kind[j] = "fetch" THEN 1 ELSE 0

(***************************************************************************)
(* start(): schedules main_loop() on the event loop.                       *)
(***************************************************************************)
start ==
    /\ main_task = FALSE
    /\ main_task' = TRUE
    /\ pc' = "wait_jobs"
    /\ UNCHANGED <<agent_vars, rest_vars, callbacks, jobs, jobs_event, running_tasks, session, closing,
                   job_state, job_kind, launches, put_tasks,
                   output_queue, opens, closes, session_errors>>

(***************************************************************************)
(* _add_job(job): _add appends (job_id, job) and sets jobs_event.          *)
(* fetch_events submits a subscription job, _broadcast_event a publish job.*)
(***************************************************************************)
\* Fault variant of _add: the job is appended, jobs_event is not set.
_add_noset(kind) ==
    /\ Cardinality(Submitted) < MaxJobs
    /\ LET j == Cardinality(Submitted) + 1 IN
        /\ jobs' = Append(jobs, j)
        /\ job_state' = [job_state EXCEPT ![j] = "queued"]
        /\ job_kind' = [job_kind EXCEPT ![j] = kind]
    /\ UNCHANGED <<main_task, callbacks, jobs_event, running_tasks, pc, session, closing,
                   launches, put_tasks, output_queue, opens, closes,
                   session_errors>>

_add(kind) ==
    /\ Cardinality(Submitted) < MaxJobs
    /\ LET j == Cardinality(Submitted) + 1 IN
        /\ jobs' = Append(jobs, j)
        /\ job_state' = [job_state EXCEPT ![j] = "queued"]
        /\ job_kind' = [job_kind EXCEPT ![j] = kind]
    /\ jobs_event' = TRUE
    /\ UNCHANGED <<main_task, callbacks, running_tasks, pc, session, closing,
                   launches, put_tasks, output_queue, opens, closes,
                   session_errors>>

_add_job(kind) == _add(kind) /\ UNCHANGED <<agent_vars, rest_vars>>

fetch_events == _add_job("fetch")

_broadcast_event == _add_job("broadcast")

(***************************************************************************)
(* cancel_job(job_id): _cancel removes a queued job, else cancels the      *)
(* running task named job_id.                                              *)
(***************************************************************************)
_cancel(j) ==
    /\ IF j \in Range(jobs)
       THEN /\ jobs' = RemoveAt(jobs, IndexOf(jobs, j))
            /\ job_state' = [job_state EXCEPT ![j] = "removed"]
            /\ UNCHANGED put_tasks
       ELSE IF j \in running_tasks
       THEN /\ job_state' = [job_state EXCEPT ![j] = CancelledState(@)]
            /\ put_tasks' = [put_tasks EXCEPT ![j] = @ + FinallyPuts(j, job_state[j])]
            /\ UNCHANGED jobs
       ELSE UNCHANGED <<jobs, job_state, put_tasks>>
    /\ UNCHANGED <<main_task, callbacks, jobs_event, running_tasks, pc,
                   session, closing, job_kind, launches, output_queue,
                   opens, closes, session_errors>>

cancel_job ==
    \E j \in Submitted : _cancel(j) /\ UNCHANGED <<agent_vars, rest_vars>>

\* Fault variant of LaunchAll: the launched jobs are not popped from the queue.
LaunchAll_nopop(rt) ==
    /\ running_tasks' = rt \cup Range(jobs)
    /\ jobs' = jobs
    /\ job_state' = [j \in Jobs |-> IF j \in Range(jobs) THEN "created" ELSE job_state[j]]
    /\ launches' = [j \in Jobs |-> IF j \in Range(jobs) THEN launches[j] + 1 ELSE launches[j]]
    /\ jobs_event' = FALSE
    /\ pc' = IF rt \cup Range(jobs) = {} THEN "grace" ELSE "wait"

(***************************************************************************)
(* Lines 107-116 of main_loop, run without suspension: every queued job is *)
(* popped and launched as a task, then jobs_event is cleared; the driver   *)
(* then waits for new jobs with a timeout (no running task) or for the     *)
(* first of the running tasks and the job waiter.  rt is running_tasks at  *)
(* the top of the loop.                                                    *)
(***************************************************************************)
LaunchAll(rt) ==
    /\ running_tasks' = rt \cup Range(jobs)
    /\ jobs' = <<>>
    /\ job_state' = [j \in Jobs |-> IF j \in Range(jobs) THEN "created" ELSE job_state[j]]
    /\ launches' = [j \in Jobs |-> IF j \in Range(jobs) THEN launches[j] + 1 ELSE launches[j]]
    /\ jobs_event' = FALSE
    /\ pc' = IF rt \cup Range(jobs) = {} THEN "grace" ELSE "wait"

\* Fault variant of InnerFinally: running_tasks is cleared, no task is cancelled.
InnerFinally_nocancel ==
    /\ running_tasks' = {}
    /\ UNCHANGED <<job_state, put_tasks>>

(***************************************************************************)
(* The finally clause of main_loop (lines 150-153): cancel every running   *)
(* task and clear running_tasks.                                           *)
(***************************************************************************)
InnerFinally ==
    /\ job_state' = [j \in Jobs |-> IF j \in running_tasks
                                    THEN TornDownState(job_state[j])
                                    ELSE job_state[j]]
    /\ put_tasks' = [j \in Jobs |-> IF j \in running_tasks
                                    THEN put_tasks[j] + FinallyPuts(j, job_state[j])
                                    ELSE put_tasks[j]]
    /\ running_tasks' = {}

\* Fault variant of JobsEventWait: the driver does not wait for a job.
JobsEventWait_nowait ==
    /\ pc = "wait_jobs"
    /\ pc' = "connecting"
    /\ UNCHANGED <<agent_vars, rest_vars, main_task, callbacks, jobs, jobs_event, running_tasks,
                   session, closing, job_state, job_kind, launches,
                   put_tasks, output_queue, opens, closes, session_errors>>

(***************************************************************************)
(* main_loop line 101: await self.jobs_event.wait()                        *)
(***************************************************************************)
JobsEventWait ==
    /\ pc = "wait_jobs"
    /\ jobs_event
    /\ pc' = "connecting"
    /\ UNCHANGED <<agent_vars, rest_vars, main_task, callbacks, jobs, jobs_event, running_tasks,
                   session, closing, job_state, job_kind, launches,
                   put_tasks, output_queue, opens, closes, session_errors>>

(***************************************************************************)
(* main_loop line 104: the manager context is entered, then the first      *)
(* pass of the inner loop runs.                                            *)
(***************************************************************************)
OpenSession ==
    /\ pc = "connecting"
    /\ session' = TRUE
    /\ opens' = opens + 1
    /\ LaunchAll(running_tasks)
    /\ UNCHANGED <<agent_vars, rest_vars, main_task, callbacks, closing, job_kind,
                   put_tasks, output_queue, closes, session_errors>>

\* Fault variant of OpenSessionError: the exception is not caught and ends
\* the driver coroutine.
OpenSessionError_uncaught ==
    /\ pc = "connecting"
    /\ pc' = "exited"
    /\ session_errors' = TRUE
    /\ UNCHANGED <<agent_vars, rest_vars, main_task, callbacks, jobs, jobs_event, running_tasks,
                   session, closing, job_state, job_kind, launches,
                   put_tasks, output_queue, opens, closes>>

(***************************************************************************)
(* Entering the manager context raises: caught at line 155, logged, the    *)
(* driver sleeps one second and retries.                                   *)
(***************************************************************************)
OpenSessionError ==
    /\ pc = "connecting"
    /\ pc' = "backoff"
    /\ session_errors' = TRUE
    /\ UNCHANGED <<agent_vars, rest_vars, main_task, callbacks, jobs, jobs_event, running_tasks,
                   session, closing, job_state, job_kind, launches,
                   put_tasks, output_queue, opens, closes>>

(***************************************************************************)
(* main_loop line 157: await asyncio.sleep(1) returns.                     *)
(***************************************************************************)
Backoff ==
    /\ pc = "backoff"
    /\ pc' = "wait_jobs"
    /\ UNCHANGED <<agent_vars, rest_vars, main_task, callbacks, jobs, jobs_event, running_tasks,
                   session, closing, job_state, job_kind, launches,
                   put_tasks, output_queue, opens, closes, session_errors>>

(***************************************************************************)
(* main_loop lines 119-121: a job arrived during the grace wait.           *)
(***************************************************************************)
GraceWake ==
    /\ pc = "grace"
    /\ jobs_event
    /\ LaunchAll(running_tasks)
    /\ UNCHANGED <<agent_vars, rest_vars, main_task, callbacks, session, closing, job_kind,
                   put_tasks, output_queue, opens, closes, session_errors>>

(***************************************************************************)
(* main_loop lines 122-123: the grace wait timed out; break, the finally   *)
(* clause finds no running task and the manager context starts to exit.    *)
(***************************************************************************)
GraceTimeout ==
    /\ pc = "grace"
    /\ ~jobs_event
    /\ pc' = "closing"
    /\ UNCHANGED <<agent_vars, rest_vars, main_task, callbacks, jobs, jobs_event, running_tasks,
                   session, closing, job_state, job_kind, launches,
                   put_tasks, output_queue, opens, closes, session_errors>>

(***************************************************************************)
(* main_loop lines 130-149 and the next pass of lines 107-116: asyncio.wait*)
(* returns because a task is done or jobs_event is set; done tasks are     *)
(* removed from running_tasks, an exception of a task is logged.           *)
(***************************************************************************)
TaskWake ==
    /\ pc = "wait"
    /\ jobs_event \/ DoneTasks # {}
    /\ LaunchAll(running_tasks \ DoneTasks)
    /\ UNCHANGED <<agent_vars, rest_vars, main_task, callbacks, session, closing, job_kind,
                   put_tasks, output_queue, opens, closes, session_errors>>

(***************************************************************************)
(* An exception raised inside the "async with" block (lines 104-153): the  *)
(* finally clause cancels the running tasks, the manager context exits,    *)
(* then line 155 catches and logs the exception.                           *)
(***************************************************************************)
SessionError ==
    /\ pc \in {"wait", "grace"}
    /\ InnerFinally
    /\ pc' = "closing_exc"
    /\ session_errors' = TRUE
    /\ UNCHANGED <<agent_vars, rest_vars, main_task, callbacks, jobs, jobs_event, session, closing,
                   job_kind, launches, output_queue, opens, closes>>

(***************************************************************************)
(* The manager context has exited (end of the "async with" block).         *)
(***************************************************************************)
CloseSession ==
    /\ pc \in {"closing", "closing_exc"}
    /\ session' = FALSE
    /\ closes' = closes + 1
    /\ pc' = IF pc = "closing" THEN "wait_jobs" ELSE "backoff"
    /\ UNCHANGED <<agent_vars, rest_vars, main_task, callbacks, jobs, jobs_event, running_tasks,
                   closing, job_state, job_kind, launches,
                   put_tasks, output_queue, opens, session_errors>>

(***************************************************************************)
(* CancelledError thrown into main_loop (main_task.cancel()): it is not an *)
(* Exception, so line 155 does not catch it.  Inside the inner try the     *)
(* finally clause runs; an entered manager context then exits while the    *)
(* cancelled coroutine unwinds.                                            *)
(***************************************************************************)
CancelDriver ==
    /\ IF pc \in {"wait", "grace"}
       THEN InnerFinally
       ELSE UNCHANGED <<job_state, put_tasks, running_tasks>>
    /\ closing' = closing + (IF session THEN 1 ELSE 0)
    /\ session' = FALSE

(***************************************************************************)
(* The manager context of a cancelled driver has finished exiting.         *)
(***************************************************************************)
OldSessionClosed ==
    /\ closing > 0
    /\ closing' = closing - 1
    /\ closes' = closes + 1
    /\ UNCHANGED <<agent_vars, rest_vars, main_task, callbacks, jobs, jobs_event, running_tasks, pc,
                   session, job_state, job_kind, launches,
                   put_tasks, output_queue, opens, session_errors>>

(***************************************************************************)
(* on_event_proxy_set: cancel the driver and start a new one.              *)
(***************************************************************************)
on_event_proxy_set ==
    /\ callbacks
    /\ main_task
    /\ CancelDriver
    /\ pc' = "wait_jobs"
    /\ UNCHANGED <<agent_vars, rest_vars, main_task, callbacks, jobs, jobs_event, job_kind, launches,
                   output_queue, opens, closes, session_errors>>

(***************************************************************************)
(* stop(): unregister the callbacks and cancel the driver.                 *)
(***************************************************************************)
stop ==
    /\ callbacks' = FALSE
    /\ IF main_task
       THEN /\ CancelDriver
            /\ pc' = "none"
            /\ main_task' = FALSE
       ELSE UNCHANGED <<job_state, put_tasks, running_tasks, closing, session,
                        pc, main_task>>
    /\ callbacks \/ main_task
    /\ UNCHANGED <<agent_vars, rest_vars, jobs, jobs_event, job_kind, launches,
                   output_queue, opens, closes, session_errors>>

(***************************************************************************)
(* Steps of a launched task (fetch_events._job, _broadcast_event._job).    *)
(***************************************************************************)
TaskStart ==
    \E j \in running_tasks :
        /\ job_state[j] = "created"
        /\ job_state' = [job_state EXCEPT ![j] = "running"]
        /\ UNCHANGED <<agent_vars, rest_vars, main_task, callbacks, jobs, jobs_event, running_tasks,
                       pc, session, closing, job_kind, launches,
                       put_tasks, output_queue, opens, closes, session_errors>>

\* the job's coroutine returns (the stream ended, the event was published)
TaskFinish ==
    \E j \in Jobs :
        /\ job_state[j] = "running"
        /\ job_state' = [job_state EXCEPT ![j] = "finished"]
        /\ put_tasks' = [put_tasks EXCEPT ![j] = @ + FinallyPuts(j, job_state[j])]
        /\ UNCHANGED <<agent_vars, rest_vars, main_task, callbacks, jobs, jobs_event, running_tasks,
                       pc, session, closing, job_kind, launches,
                       output_queue, opens, closes, session_errors>>

\* the job's coroutine raises an exception
TaskRaise ==
    \E j \in Jobs :
        /\ job_state[j] = "running"
        /\ job_state' = [job_state EXCEPT ![j] = "failed"]
        /\ put_tasks' = [put_tasks EXCEPT ![j] = @ + FinallyPuts(j, job_state[j])]
        /\ UNCHANGED <<agent_vars, rest_vars, main_task, callbacks, jobs, jobs_event, running_tasks,
                       pc, session, closing, job_kind, launches,
                       output_queue, opens, closes, session_errors>>

\* fetch_events._job line 221: the task created in the finally clause runs
PutSentinel ==
    \E j \in Jobs :
        /\ put_tasks[j] > 0
        /\ put_tasks' = [put_tasks EXCEPT ![j] = @ - 1]
        /\ output_queue' = [output_queue EXCEPT ![j] = Append(@, "None")]
        /\ UNCHANGED <<agent_vars, rest_vars, main_task, callbacks, jobs, jobs_event, running_tasks,
                       pc, session, closing, job_state, job_kind, launches,
                       opens, closes, session_errors>>

(***************************************************************************)
(* EscrowAgent (agent.py).                                                 *)
(*                                                                         *)
(* A trade is the record of AgentEscrowTrade together with its dict key    *)
(* (id).  Strings are modelled by their length, is_address() and           *)
(* TradeContract.verify() by their boolean result.  A missing taker        *)
(* (TradeParticipants.taker = None) is the record NoTaker.                 *)
(***************************************************************************)
MakerPubkeys == {"A"}

TakerPubkeys == {"B"}

\* keys the wallet can report a status for: those of funding requests and
\* those of requests of the wallet that belong to no trade
Keys == 1..(2 * MaxRequests)

\* ids of request events (random hex strings in the source)
EventIds == {"e1"}

\* Keys of wallet requests are payment hashes, distinct for distinct requests:
\* the model names a request after the trade and the participant it is for.
MakerKey(trade_id) == 2 * trade_id - 1

TakerKey(trade_id) == 2 * trade_id

NoTaker == [pubkey |-> "None", funding_request_key |-> 0]

Ids(ts) == {ts[i].id : i \in 1..Len(ts)}

TradeById(ts, trade_id) == ts[CHOOSE i \in 1..Len(ts) : ts[i].id = trade_id]

Send(msg) == sent (+) SetToBag({msg})

\* wallet.create_request(amount_sat, message, exp_delay=600, address=None)
create_request(w, key, amount_sat) ==
    [k \in DOMAIN w \cup {key} |->
        IF k = key THEN [time |-> now, amount_sat |-> amount_sat] ELSE w[k]]

\* wallet.delete_request(key)
delete_request(w, key) ==
    [k \in DOMAIN w \ {key} |-> w[k]]

\* Request.has_expired(): the expiration date time + exp lies in the past
has_expired(req) == now > req.time + EXP_DELAY

(***************************************************************************)
(* The requests a peer can send, as _handle_register_escrow reads them:    *)
(* the well-formed ones and, for every check, one request failing it.      *)
(* has_bond = FALSE stands for a request without "bond_amount_sat";        *)
(* trade_amount_sat = 0 also stands for a missing amount.                  *)
(***************************************************************************)
BaseRequest ==
    [title_len |-> 1, contract_len |-> 1, address_ok |-> TRUE,
     payment_protocol |-> BITCOIN_LIGHTNING, payment_network |-> "local",
     trade_protocol_version |-> PROTOCOL_VERSION,
     trade_amount_sat |-> MIN_TRADE_AMOUNT_SAT,
     has_bond |-> TRUE, bond_amount_sat |-> 30,
     signature_ok |-> TRUE, payment_direction |-> SENDING]

ValidRequests ==
    {BaseRequest}

InvalidRequests ==
    {[BaseRequest EXCEPT !.title_len = 0],
     [BaseRequest EXCEPT !.title_len = MAX_TITLE_LEN_CHARS + 1],
     [BaseRequest EXCEPT !.contract_len = 0],
     [BaseRequest EXCEPT !.contract_len = MAX_CONTRACT_LEN_CHARS + 1],
     [BaseRequest EXCEPT !.address_ok = FALSE],
     [BaseRequest EXCEPT !.payment_protocol = BITCOIN_ONCHAIN],
     [BaseRequest EXCEPT !.payment_protocol = 2],
     [BaseRequest EXCEPT !.payment_network = "other"],
     [BaseRequest EXCEPT !.trade_protocol_version = PROTOCOL_VERSION + 1],
     [BaseRequest EXCEPT !.trade_amount_sat = 0],
     [BaseRequest EXCEPT !.trade_amount_sat = MIN_TRADE_AMOUNT_SAT - 1],
     [BaseRequest EXCEPT !.has_bond = FALSE],
     [BaseRequest EXCEPT !.signature_ok = FALSE],
     [BaseRequest EXCEPT !.payment_direction = 2]}

Requests == ValidRequests \cup InvalidRequests

\* Fault variant of ValidationError: the contract signature is not verified.
ValidationError_nosignature(request) ==
    CASE request.title_len = 0 \/ request.title_len > MAX_TITLE_LEN_CHARS
            -> "invalid title"
      [] request.contract_len = 0 \/ request.contract_len > MAX_CONTRACT_LEN_CHARS
            -> "invalid contract"
      [] ~request.address_ok
            -> "invalid onchain fallback address"
      [] request.payment_protocol \notin {BITCOIN_ONCHAIN, BITCOIN_LIGHTNING}
            -> "not a valid TradePaymentProtocol"
      [] request.payment_protocol # BITCOIN_LIGHTNING
            -> "unsupported payment_protocol"
      [] request.payment_network # "local"
            -> "invalid payment_network"
      [] request.trade_protocol_version # PROTOCOL_VERSION
            -> "invalid trade_protocol_version"
      [] request.trade_amount_sat = 0 \/ request.trade_amount_sat < MIN_TRADE_AMOUNT_SAT
            -> "no or too small trade_amount_sat"
      [] ~request.has_bond
            -> "bond_amount_sat is missing"
      [] request.payment_direction \notin {SENDING, RECEIVING}
            -> "not a valid TradePaymentDirection"
      [] OTHER -> "ok"

\* _handle_register_escrow lines 248-291: the first check that raises, or "ok"
ValidationError(request) ==
    CASE request.title_len = 0 \/ request.title_len > MAX_TITLE_LEN_CHARS
            -> "invalid title"
      [] request.contract_len = 0 \/ request.contract_len > MAX_CONTRACT_LEN_CHARS
            -> "invalid contract"
      [] ~request.address_ok
            -> "invalid onchain fallback address"
      [] request.payment_protocol \notin {BITCOIN_ONCHAIN, BITCOIN_LIGHTNING}
            -> "not a valid TradePaymentProtocol"
      [] request.payment_protocol # BITCOIN_LIGHTNING
            -> "unsupported payment_protocol"
      [] request.payment_network # "local"
            -> "invalid payment_network"
      [] request.trade_protocol_version # PROTOCOL_VERSION
            -> "invalid trade_protocol_version"
      [] request.trade_amount_sat = 0 \/ request.trade_amount_sat < MIN_TRADE_AMOUNT_SAT
            -> "no or too small trade_amount_sat"
      [] ~request.has_bond
            -> "bond_amount_sat is missing"
      [] ~request.signature_ok
            -> "invalid contract_signature"
      [] request.payment_direction \notin {SENDING, RECEIVING}
            -> "not a valid TradePaymentDirection"
      [] OTHER -> "ok"

\* Fault variant of funding_amount_sat: the maker always pays the trade amount.
funding_amount_sat_trade(request) ==
    request.trade_amount_sat

\* _handle_register_escrow line 295: the amount of the maker's funding invoice
funding_amount_sat(request) ==
    IF request.payment_direction = SENDING
    THEN request.trade_amount_sat
    ELSE request.bond_amount_sat

\* min(self._pending_trades, key=creation_timestamp): the first trade, in
\* dict order, with the smallest creation timestamp
OldestIndex(p) ==
    CHOOSE i \in 1..Len(p) :
        /\ \A k \in 1..Len(p) : p[i].creation_timestamp <= p[k].creation_timestamp
        /\ \A k \in 1..(i - 1) : p[k].creation_timestamp > p[i].creation_timestamp

\* Fault variant of _add_new_trade: evicts only above the capacity.
_add_new_trade_gt(p, w, trade) ==
    IF Len(p) > MAX_AMOUNT_PENDING_TRADES
    THEN LET i == OldestIndex(p) IN
         [pending_trades |-> Append(RemoveAt(p, i), trade),
          wallet_requests |-> delete_request(w, p[i].trade_participants.maker.funding_request_key)]
    ELSE [pending_trades |-> Append(p, trade), wallet_requests |-> w]

\* Fault variant of _add_new_trade: the evicted trade's funding request stays
\* in the wallet.
_add_new_trade_nodelete(p, w, trade) ==
    IF Len(p) >= MAX_AMOUNT_PENDING_TRADES
    THEN [pending_trades |-> Append(RemoveAt(p, OldestIndex(p)), trade),
          wallet_requests |-> w]
    ELSE [pending_trades |-> Append(p, trade), wallet_requests |-> w]

(***************************************************************************)
(* _add_new_trade(trade): with pending set p and wallet requests w, gives  *)
(* the pending set and the wallet requests after the call.                 *)
(***************************************************************************)
_add_new_trade(p, w, trade) ==
    IF Len(p) >= MAX_AMOUNT_PENDING_TRADES
    THEN LET i == OldestIndex(p) IN
         [pending_trades |-> Append(RemoveAt(p, i), trade),
          wallet_requests |-> delete_request(w, p[i].trade_participants.maker.funding_request_key)]
    ELSE [pending_trades |-> Append(p, trade), wallet_requests |-> w]

\* send_encrypted_ephemeral_message(response, recipient, response_to_id).
\* Ephemeral events are not stored: the model keeps those of the last call,
\* and of an error response that it is one, not its text.
EphemeralMessage(content, recipient_pubkey, response_to_id) ==
    [kind |-> "ephemeral", content |-> content,
     recipient_pubkey |-> recipient_pubkey, response_to_id |-> response_to_id]

(***************************************************************************)
(* _handle_register_escrow(request, sender_pubkey, request_event_id), as   *)
(* dispatched by _handle_requests for a register_escrow request event.     *)
(***************************************************************************)
register_escrow(request, sender_pubkey, request_event_id) ==
        /\ agent_task # "cancelled"
        /\ next_trade_id <= MaxRequests
        /\ exc' = "none"
        /\ IF ValidationError(request) # "ok"
           THEN /\ replies' = SetToBag({EphemeralMessage(
                        [error |-> TRUE, trade_id |-> 0, bolt11_invoice |-> 0],
                        sender_pubkey, request_event_id)})
                /\ UNCHANGED <<pending_trades, trades, wallet_requests, now, sent,
                               next_trade_id>>
           ELSE LET amount_sat == funding_amount_sat(request)
                    req_key == MakerKey(next_trade_id)
                    maker == [pubkey |-> sender_pubkey,
                              funding_request_key |-> req_key]
                    trade == [id |-> next_trade_id,
                              state |-> WAITING_FOR_TAKER,
                              trade_participants |-> [maker |-> maker, taker |-> NoTaker],
                              contract |-> [title_len |-> request.title_len,
                                            contract_len |-> request.contract_len,
                                            trade_amount_sat |-> request.trade_amount_sat,
                                            bond_sat |-> request.bond_amount_sat],
                              payment_protocol |-> request.payment_protocol,
                              trade_protocol_version |-> request.trade_protocol_version,
                              creation_timestamp |-> now]
                    r == _add_new_trade(pending_trades,
                                        create_request(wallet_requests, req_key, amount_sat),
                                        trade)
                IN  /\ pending_trades' = r.pending_trades
                    /\ wallet_requests' = r.wallet_requests
                    /\ next_trade_id' = next_trade_id + 1
                    /\ replies' = SetToBag({EphemeralMessage(
                            [error |-> FALSE, trade_id |-> trade.id, bolt11_invoice |-> req_key],
                            sender_pubkey, request_event_id)})
                    /\ UNCHANGED <<trades, now, sent>>
        /\ UNCHANGED <<sched_vars, rest_vars>>

_handle_register_escrow ==
    \E request \in Requests, sender_pubkey \in MakerPubkeys, request_event_id \in EventIds :
        register_escrow(request, sender_pubkey, request_event_id)

(***************************************************************************)
(* _handle_accept_escrow is a stub in agent.py.  What attaches a taker to  *)
(* a persisted trade is taken from the data model of the design: a taker   *)
(* participant with the key of a wallet-generated funding request.         *)
(***************************************************************************)
_handle_accept_escrow ==
    \E i \in 1..Len(trades), sender_pubkey \in TakerPubkeys :
        /\ agent_task # "cancelled"
        /\ trades[i].state = WAITING_FOR_TAKER
        /\ trades[i].trade_participants.taker = NoTaker
        /\ trades' = [trades EXCEPT ![i].trade_participants.taker =
                        [pubkey |-> sender_pubkey,
                         funding_request_key |-> TakerKey(trades[i].id)]]
        /\ exc' = "none"
        /\ replies' = EmptyBag
        /\ UNCHANGED <<pending_trades, wallet_requests, now, sent, next_trade_id>>
        /\ UNCHANGED <<sched_vars, rest_vars>>

\* Fault variant of _handle_maker_funding: the trade is copied to the
\* persisted map and stays pending.
_handle_maker_funding_keep(trade_id) ==
    IF trade_id \in Ids(trades)
    THEN /\ exc' = "AssertionError"
         /\ UNCHANGED <<pending_trades, trades, sent>>
    ELSE /\ trades' = Append(trades, TradeById(pending_trades, trade_id))
         /\ exc' = "none"
         /\ UNCHANGED <<pending_trades, sent>>

(***************************************************************************)
(* _handle_maker_funding(trade_id)                                         *)
(***************************************************************************)
_handle_maker_funding(trade_id) ==
    IF trade_id \in Ids(trades)
    THEN /\ exc' = "AssertionError"
         /\ UNCHANGED <<pending_trades, trades, sent>>
    ELSE /\ trades' = Append(trades, TradeById(pending_trades, trade_id))
         /\ pending_trades' = SelectSeq(pending_trades, LAMBDA t : t.id # trade_id)
         /\ exc' = "none"
         /\ UNCHANGED sent

(***************************************************************************)
(* _notify_maker_trade_funded(trade_id): the bag of sent messages after    *)
(* send_encrypted_direct_message(msg, maker_pubkey, ...)                   *)
(***************************************************************************)
TradeFundedMessage(trade_id, recipient_pubkey) ==
    [kind |-> "direct_message",
     content |-> [method |-> "trade_funded", trade_id |-> trade_id],
     recipient_pubkey |-> recipient_pubkey]

\* Fault variant of _notify_maker_trade_funded: addressed to the taker.
_notify_maker_trade_funded_taker(trade_id) ==
    Send(TradeFundedMessage(trade_id,
            TradeById(trades, trade_id).trade_participants.taker.pubkey))

_notify_maker_trade_funded(trade_id) ==
    Send(TradeFundedMessage(trade_id,
            TradeById(trades, trade_id).trade_participants.maker.pubkey))

\* Fault variant of _handle_taker_funding: without the assertion.
_handle_taker_funding_noassert(trade_id) ==
    LET i == CHOOSE k \in 1..Len(trades) : trades[k].id = trade_id IN
    /\ trades' = [trades EXCEPT ![i].state = ONGOING]
    /\ sent' = _notify_maker_trade_funded(trade_id)
    /\ exc' = "none"
    /\ UNCHANGED pending_trades

(***************************************************************************)
(* _handle_taker_funding(trade_id)                                         *)
(***************************************************************************)
_handle_taker_funding(trade_id) ==
    LET i == CHOOSE k \in 1..Len(trades) : trades[k].id = trade_id IN
    IF ~(trades[i].state < ONGOING)
    THEN /\ exc' = "AssertionError"
         /\ UNCHANGED <<pending_trades, trades, sent>>
    ELSE /\ trades' = [trades EXCEPT ![i].state = ONGOING]
         /\ sent' = _notify_maker_trade_funded(trade_id)
         /\ exc' = "none"
         /\ UNCHANGED pending_trades

(***************************************************************************)
(* on_event_request_status(wallet, key, status).  The second loop reads    *)
(* trade.trade_participants.taker.funding_request_key of every persisted   *)
(* trade in dict order until a key matches: on a trade without taker this  *)
(* raises AttributeError.                                                  *)
(***************************************************************************)
request_status(wallet, key, status) ==
    /\ IF wallet # "self" \/ status # "PR_PAID"
       THEN /\ exc' = "none"
            /\ UNCHANGED <<pending_trades, trades, sent>>
       ELSE IF \E i \in 1..Len(pending_trades) :
                    pending_trades[i].trade_participants.maker.funding_request_key = key
       THEN LET i == CHOOSE k \in 1..Len(pending_trades) :
                    pending_trades[k].trade_participants.maker.funding_request_key = key
            IN _handle_maker_funding(pending_trades[i].id)
       ELSE LET stops == {i \in 1..Len(trades) :
                            \/ trades[i].trade_participants.taker = NoTaker
                            \/ trades[i].trade_participants.taker.funding_request_key = key}
            IN  IF stops = {}
                THEN /\ exc' = "none"
                     /\ UNCHANGED <<pending_trades, trades, sent>>
                ELSE LET i == CHOOSE k \in stops : \A m \in stops : k <= m IN
                     IF trades[i].trade_participants.taker = NoTaker
                     THEN /\ exc' = "AttributeError"
                          /\ UNCHANGED <<pending_trades, trades, sent>>
                     ELSE _handle_taker_funding(trades[i].id)
    /\ replies' = EmptyBag
    /\ UNCHANGED <<wallet_requests, now, next_trade_id>>
    /\ UNCHANGED <<sched_vars, rest_vars>>

on_event_request_status ==
    \E wallet \in {"self", "other"}, key \in Keys,
       status \in {"PR_PAID", "PR_UNPAID"} :
        /\ agent_callbacks
        /\ request_status(wallet, key, status)

\* Fault variant of _cleanup_pending_trades_funding_expired: the funding
\* requests of the removed trades stay in the wallet.
_cleanup_pending_trades_funding_expired_keep ==
    LET expired == {i \in 1..Len(pending_trades) :
            has_expired(wallet_requests[pending_trades[i].trade_participants.maker.funding_request_key])}
        keys == {pending_trades[i].trade_participants.maker.funding_request_key : i \in expired}
    IN  /\ agent_task # "cancelled"
        /\ expired # {}
        /\ pending_trades' = SelectSeq(pending_trades,
                LAMBDA t : t.trade_participants.maker.funding_request_key \notin keys)
        /\ wallet_requests' = wallet_requests
        /\ exc' = "none"
        /\ replies' = EmptyBag
        /\ UNCHANGED <<trades, now, sent, next_trade_id>>
        /\ UNCHANGED <<sched_vars, rest_vars>>

(***************************************************************************)
(* One pass of _cleanup_pending_trades_funding_expired (lines 188-193).    *)
(***************************************************************************)
_cleanup_pending_trades_funding_expired ==
    LET expired == {i \in 1..Len(pending_trades) :
            has_expired(wallet_requests[pending_trades[i].trade_participants.maker.funding_request_key])}
        keys == {pending_trades[i].trade_participants.maker.funding_request_key : i \in expired}
    IN  /\ agent_task # "cancelled"
        /\ expired # {}
        /\ pending_trades' = SelectSeq(pending_trades,
                LAMBDA t : t.trade_participants.maker.funding_request_key \notin keys)
        /\ wallet_requests' = [k \in DOMAIN wallet_requests \ keys |-> wallet_requests[k]]
        /\ exc' = "none"
        /\ replies' = EmptyBag
        /\ UNCHANGED <<trades, now, sent, next_trade_id>>
        /\ UNCHANGED <<sched_vars, rest_vars>>

\* time passes
Tick ==
    /\ now < MaxTime
    /\ now' = now + 1
    /\ UNCHANGED <<pending_trades, trades, wallet_requests, sent, replies, exc,
                   next_trade_id>>
    /\ UNCHANGED <<sched_vars, rest_vars>>

AgentNext ==
    \/ _handle_register_escrow
    \/ _handle_accept_escrow
    \/ on_event_request_status
    \/ _cleanup_pending_trades_funding_expired
    \/ Tick

AgentSpec == Init /\ [][AgentNext]_vars

\* The janitor loop makes a pass every 30 seconds for as long as it runs.
AgentFairSpec ==
    /\ AgentSpec
    /\ WF_vars(_cleanup_pending_trades_funding_expired)

(***************************************************************************)
(* The request dispatcher _handle_requests receiving a register_escrow     *)
(* event of any peer: any sender, any event id, both payment directions.   *)
(***************************************************************************)
SenderPubkeys == {"A", "B"}

RequestEventIds == {"e1", "e2"}

RegisterRequests ==
    {[BaseRequest EXCEPT !.payment_direction = d] : d \in {SENDING, RECEIVING}}
        \cup InvalidRequests

_handle_requests ==
    \E request \in RegisterRequests, sender_pubkey \in SenderPubkeys,
       request_event_id \in RequestEventIds :
        register_escrow(request, sender_pubkey, request_event_id)

\* registrations and fundings, at one instant of time
RegisterNext ==
    \/ _handle_requests
    \/ on_event_request_status

RegisterSpec == Init /\ [][RegisterNext]_vars

(***************************************************************************)
(* _cleanup_pending_trades(): the wallet requests left after the funding   *)
(* request of every pending trade in p was deleted.                        *)
(***************************************************************************)
_cleanup_pending_trades(p, w) ==
    [k \in DOMAIN w \ {p[i].trade_participants.maker.funding_request_key : i \in 1..Len(p)}
        |-> w[k]]

(***************************************************************************)
(* EscrowAgent.stop(), run on the thread of the caller (close_wallet,      *)
(* set_escrow_agent_mode): the pending trades are cleaned up, the          *)
(* callbacks unregistered, and EscrowWorker.stop cancels main_task, a      *)
(* concurrent Future: the cancellation reaches the task when the event     *)
(* loop runs the call scheduled by Future.cancel().                        *)
(***************************************************************************)
EscrowAgent_stop ==
    /\ agent_task = "running"
    /\ wallet_requests' = _cleanup_pending_trades(pending_trades, wallet_requests)
    /\ pending_trades' = <<>>
    /\ agent_callbacks' = FALSE
    /\ agent_task' = "cancel_requested"
    /\ exc' = "none"
    /\ replies' = EmptyBag
    /\ UNCHANGED <<trades, now, sent, next_trade_id, subtasks>>
    /\ UNCHANGED <<sched_vars, payout_vars, client_vars, more_vars>>

(***************************************************************************)
(* The sub-tasks of EscrowAgent.main_loop, in the order of the tuple       *)
(* `tasks` (agent.py 88-95).                                               *)
(***************************************************************************)
SubTasks ==
    <<"_broadcast_status_event", "_maybe_rebroadcast_profile_event",
      "_broadcast_relay_event", "_handle_requests",
      "_pay_pending_lightning_invoices",
      "_cleanup_pending_trades_funding_expired">>

(***************************************************************************)
(* OldTaskGroup (electrum/util.py).  What the group does to its children   *)
(* when child t ends with an exception, and when the task that holds the   *)
(* group is cancelled, is taken from the design: a failing child is        *)
(* isolated, the children still running are cancelled on actor stop.       *)
(***************************************************************************)
\* Fault variant of OldTaskGroup_child_failed: the siblings are torn down.
OldTaskGroup_child_failed_teardown(g, t) ==
    [u \in DOMAIN g |-> IF u = t THEN "failed"
                        ELSE IF g[u] = "running" THEN "cancelled" ELSE g[u]]

OldTaskGroup_child_failed(g, t) == [g EXCEPT ![t] = "failed"]

OldTaskGroup_cancel(g) ==
    [u \in DOMAIN g |-> IF g[u] = "running" THEN "cancelled" ELSE g[u]]

\* the event loop cancels main_loop: the task group cancels the sub-tasks
AgentTaskCancelled ==
    /\ agent_task = "cancel_requested"
    /\ agent_task' = "cancelled"
    /\ subtasks' = OldTaskGroup_cancel(subtasks)
    /\ UNCHANGED <<agent_vars, agent_callbacks, sched_vars, payout_vars, client_vars, more_vars>>

(***************************************************************************)
(* main_loop lines 96-99: the next coroutine of `tasks` is spawned into    *)
(* the group; main_loop then sleeps three seconds.                         *)
(***************************************************************************)
main_loop_spawn ==
    /\ agent_task # "cancelled"
    /\ \E t \in DOMAIN subtasks :
            /\ subtasks[t] = "unspawned"
            /\ \A u \in 1..(t - 1) : subtasks[u] # "unspawned"
            /\ subtasks' = [subtasks EXCEPT ![t] = "running"]
    /\ UNCHANGED <<agent_task, agent_callbacks>>
    /\ UNCHANGED <<sched_vars, agent_vars, payout_vars, client_vars, more_vars>>

\* sub-task t ends with an exception
SubTaskRaise(t) ==
    /\ subtasks[t] = "running"
    /\ subtasks' = OldTaskGroup_child_failed(subtasks, t)
    /\ UNCHANGED <<agent_task, agent_callbacks>>
    /\ UNCHANGED <<sched_vars, agent_vars, payout_vars, client_vars, more_vars>>

SubTaskFails == \E t \in DOMAIN subtasks : SubTaskRaise(t)

SuperviseNext ==
    \/ main_loop_spawn
    \/ SubTaskFails
    \/ EscrowAgent_stop
    \/ AgentTaskCancelled

SuperviseSpec == Init /\ [][SuperviseNext]_vars

AgentStopNext ==
    \/ AgentNext
    \/ EscrowAgent_stop
    \/ AgentTaskCancelled

AgentStopSpec == Init /\ [][AgentStopNext]_vars

SchedNext ==
    \/ start
    \/ stop
    \/ fetch_events
    \/ _broadcast_event
    \/ cancel_job
    \/ on_event_proxy_set
    \/ JobsEventWait
    \/ OpenSession
    \/ OpenSessionError
    \/ Backoff
    \/ GraceWake
    \/ GraceTimeout
    \/ TaskWake
    \/ SessionError
    \/ CloseSession
    \/ OldSessionClosed
    \/ TaskStart
    \/ TaskFinish
    \/ TaskRaise
    \/ PutSentinel

SchedSpec == Init /\ [][SchedNext]_vars

(***************************************************************************)
(* fetch_events._job line 219: the running job puts an event of the stream *)
(* on its output queue (asyncio.Queue.put on a queue with room returns     *)
(* without suspending).                                                    *)
(***************************************************************************)
PutEvent ==
    \E j \in Jobs :
        /\ job_state[j] = "running"
        /\ job_kind[j] = "fetch"
        /\ Len(SelectSeq(output_queue[j], LAMBDA x : x = "event")) < MaxStream
        /\ output_queue' = [output_queue EXCEPT ![j] = Append(@, "event")]
        /\ UNCHANGED <<agent_vars, rest_vars, main_task, callbacks, jobs, jobs_event, running_tasks,
                       pc, session, closing, job_state, job_kind, launches,
                       put_tasks, opens, closes, session_errors>>

StreamNext ==
    \/ SchedNext
    \/ PutEvent

StreamSpec == Init /\ [][StreamNext]_vars

SchedFairSpec ==
    /\ SchedSpec
    /\ WF_vars(JobsEventWait)
    /\ SF_vars(OpenSession)
    /\ WF_vars(Backoff)
    /\ WF_vars(GraceWake)
    /\ WF_vars(TaskWake)
    /\ WF_vars(CloseSession)

(***************************************************************************)
(* Payouts (agent.py lines 371-423).  An invoice is the record of its      *)
(* creation time and its expiry; Invoice.from_bech32 and get_amount_sat    *)
(* are modelled by the kind of the submitted invoice string.               *)
(***************************************************************************)
InvoiceKeys == 1..MaxInvoices

\* lifetimes of an invoice: short, or longer than the time of the model
InvoiceExpiries == {1, 10}

trade_vars == <<pending_trades, trades, wallet_requests, sent, replies, exc,
                next_trade_id>>

Without(f, k) == [x \in DOMAIN f \ {k} |-> f[x]]

With(f, k, v) == [x \in DOMAIN f \cup {k} |-> IF x = k THEN v ELSE f[x]]

\* Invoice.has_expired()
invoice_has_expired(invoice) == now > invoice.time + invoice.exp

(***************************************************************************)
(* _register_payout_invoice(b11_invoice, expected_amount_sat): an invoice  *)
(* that does not decode is rejected, one with another amount raises        *)
(* ValueError; else the invoice is saved and scheduled for now.  The same  *)
(* invoice can be registered again.                                        *)
(***************************************************************************)
_register_payout_invoice ==
    \E key \in InvoiceKeys, kind \in {"ok", "undecodable", "wrong_amount"},
       age \in {0, 1}, exp \in InvoiceExpiries :
        /\ key <= Cardinality(DOMAIN wallet_invoices) + 1
        /\ IF kind # "ok"
           THEN UNCHANGED <<lightning_invoices_to_pay, wallet_invoices>>
           ELSE /\ key \notin DOMAIN wallet_invoices => age <= now
                /\ wallet_invoices' =
                        IF key \in DOMAIN wallet_invoices
                        THEN wallet_invoices
                        ELSE With(wallet_invoices, key, [time |-> now - age, exp |-> exp])
                /\ lightning_invoices_to_pay' = With(lightning_invoices_to_pay, key, now)
        /\ UNCHANGED <<paying, attempts, paid, now, trade_vars, life_vars, client_vars, more_vars,
                   sched_vars>>

\* Fault variant of _pay_pending_lightning_invoices: no payout timeout.
_pay_pending_lightning_invoices_notimeout(key) ==
    /\ agent_task # "cancelled"
    /\ paying = 0
    /\ key \in DOMAIN lightning_invoices_to_pay
    /\ now >= lightning_invoices_to_pay[key]
    /\ IF invoice_has_expired(wallet_invoices[key])
       THEN /\ lightning_invoices_to_pay' = Without(lightning_invoices_to_pay, key)
            /\ UNCHANGED <<paying, attempts>>
       ELSE /\ attempts[key] < MaxAttempts
            /\ lightning_invoices_to_pay' =
                    [lightning_invoices_to_pay EXCEPT ![key] = @ + PAYOUT_LOCK]
            /\ paying' = key
            /\ attempts' = [attempts EXCEPT ![key] = @ + 1]
    /\ UNCHANGED <<wallet_invoices, paid, now, trade_vars, life_vars, client_vars, more_vars,
                   sched_vars>>

(***************************************************************************)
(* _pay_pending_lightning_invoices, lines 390-408 for one entry that is    *)
(* due: the entry is dropped if the invoice has expired or is older than   *)
(* the payout timeout, else it is locked and _pay_invoice is awaited.  An  *)
(* entry that is not due is skipped.                                       *)
(***************************************************************************)
_pay_pending_lightning_invoices(key) ==
    /\ agent_task # "cancelled"
    /\ paying = 0
    /\ key \in DOMAIN lightning_invoices_to_pay
    /\ now >= lightning_invoices_to_pay[key]
    /\ IF invoice_has_expired(wallet_invoices[key])
       THEN /\ lightning_invoices_to_pay' = Without(lightning_invoices_to_pay, key)
            /\ UNCHANGED <<paying, attempts>>
       ELSE IF now - wallet_invoices[key].time > PAYOUT_TIMEOUT_SEC
       THEN /\ lightning_invoices_to_pay' = Without(lightning_invoices_to_pay, key)
            /\ UNCHANGED <<paying, attempts>>
       ELSE /\ attempts[key] < MaxAttempts
            /\ lightning_invoices_to_pay' =
                    [lightning_invoices_to_pay EXCEPT ![key] = @ + PAYOUT_LOCK]
            /\ paying' = key
            /\ attempts' = [attempts EXCEPT ![key] = @ + 1]
    /\ UNCHANGED <<wallet_invoices, paid, now, trade_vars, life_vars, client_vars, more_vars,
                   sched_vars>>

PayoutScan == \E key \in InvoiceKeys : _pay_pending_lightning_invoices(key)

\* Fault variant of _pay_invoice: a failed payment is not retried.
_pay_invoice_noretry(outcome) ==
    /\ agent_task # "cancelled"
    /\ paying # 0
    /\ lightning_invoices_to_pay' = Without(lightning_invoices_to_pay, paying)
    /\ paying' = 0
    /\ UNCHANGED <<wallet_invoices, attempts, now, trade_vars, life_vars, client_vars, more_vars,
                   sched_vars>>

(***************************************************************************)
(* _pay_invoice(invoice): lnworker.pay_invoice returns success or failure, *)
(* or raises.  A failed payment is scheduled again after the retry         *)
(* interval, the entry is deleted otherwise.                               *)
(***************************************************************************)
_pay_invoice(outcome) ==
    /\ agent_task # "cancelled"
    /\ paying # 0
    /\ lightning_invoices_to_pay' =
            IF outcome = "failed"
            THEN With(lightning_invoices_to_pay, paying, now + PAYOUT_INTERVAL_SEC)
            ELSE Without(lightning_invoices_to_pay, paying)
    /\ paying' = 0
    /\ UNCHANGED <<wallet_invoices, attempts, now, trade_vars, life_vars, client_vars, more_vars,
                   sched_vars>>

\* lnworker.pay_invoice returns or raises; no record of the payments is kept
PayResult ==
    \E outcome \in {"success", "failed", "exception"} :
        _pay_invoice(outcome) /\ UNCHANGED paid

\* the same step, with the history of the invoices paid
PayResultPaid ==
    \E outcome \in {"success", "failed", "exception"} :
        /\ _pay_invoice(outcome)
        /\ paid' = IF outcome = "success" THEN paid \cup {paying} ELSE paid

\* time passes
PayoutTick ==
    /\ now < MaxPayoutTime
    /\ now' = now + 1
    /\ UNCHANGED <<trade_vars, rest_vars, sched_vars>>

PayoutNext ==
    \/ _register_payout_invoice
    \/ PayoutScan
    \/ PayResult
    \/ PayoutTick

PayoutSpec == Init /\ [][PayoutNext]_vars

\* the payouts with the history of the invoices paid
PaidNext ==
    \/ _register_payout_invoice
    \/ PayoutScan
    \/ PayResultPaid
    \/ PayoutTick

PaidSpec == Init /\ [][PaidNext]_vars

\* The payout loop examines every entry of the schedule in each pass, and
\* lnworker.pay_invoice returns.
PayoutFairSpec ==
    /\ PayoutSpec
    /\ \A key \in InvoiceKeys : SF_vars(_pay_pending_lightning_invoices(key))
    /\ WF_vars(PayResult)

(***************************************************************************)
(* EscrowClient (client.py).                                               *)
(*                                                                         *)
(* An Optional value is a sequence: None is <<>>, a value x is <<x>>.      *)
(* The content of an event is "invalid" (it does not parse as what its     *)
(* kind requires) or names what it carries; the relay list of a relay-list *)
(* event is the list of its 'r' tags that are websocket URLs.  The 'r' tag *)
(* with the network name is "local" for f"net:{NET_NAME}".                 *)
(***************************************************************************)
Pubkeys == {"A", "B"}

EventKinds == {AGENT_PROFILE_EVENT_KIND, AGENT_STATUS_EVENT_KIND,
               AGENT_RELAY_LIST_METADATA_KIND, 1}

Contents == {"invalid", "c1", "c2"}

NetTags == {"local", "other"}

\* the events delivered: events of A of the three kinds, those of the first
\* instant carrying "c1" and the later ones "c2", or not parsing; one event
\* of each kind of B, and one event of another kind of each
Events ==
    {event \in [pubkey : Pubkeys, kind : EventKinds, created_at : 1..MaxTs,
                content : Contents, net : NetTags] :
        /\ event.content = "c1" => event.created_at = 1
        /\ event.content = "c2" => event.created_at > 1
        /\ (event.pubkey = "B" \/ event.kind = 1)
            => (event.created_at = 1 /\ event.content = "c1" /\ event.net = "local")}

\* events of a kind the client does not handle
UnwantedEvents == {event \in Events : event.kind = 1}

None == <<>>

Some(x) == <<x>>

\* (ts or 0)
OrZero(ts) == IF ts = None THEN 0 ELSE ts[1]

\* EscrowAgentInfo(): the default of the defaultdict agent_infos
EscrowAgentInfo ==
    [profile_info |-> None, liquidity |-> None, relays |-> None,
     profile_ts |-> None, status_ts |-> None, relay_ts |-> None]

\* self.agent_infos[pubkey] of the defaultdict
InfoOf(infos, pubkey) ==
    IF pubkey \in DOMAIN infos THEN infos[pubkey] ELSE EscrowAgentInfo

\* Fault variant of _handle_escrow_agent_profile: no staleness check.
_handle_escrow_agent_profile_nocheck(infos, event) ==
    IF event.content = "invalid"
    THEN infos
    ELSE With(infos, event.pubkey,
              [InfoOf(infos, event.pubkey) EXCEPT
                  !.profile_info = Some(event.content),
                  !.profile_ts = Some(event.created_at)])

(***************************************************************************)
(* _handle_escrow_agent_profile(event): an event that does not parse is    *)
(* dropped, and so is one not newer than the cached profile; else the      *)
(* profile and its timestamp are replaced.                                 *)
(***************************************************************************)
_handle_escrow_agent_profile(infos, event) ==
    IF event.content = "invalid"
    THEN infos
    ELSE IF /\ event.pubkey \in DOMAIN infos
            /\ event.created_at <= OrZero(infos[event.pubkey].profile_ts)
    THEN infos
    ELSE With(infos, event.pubkey,
              [InfoOf(infos, event.pubkey) EXCEPT
                  !.profile_info = Some(event.content),
                  !.profile_ts = Some(event.created_at)])

\* _handle_escrow_agent_status(event): the same for the liquidity figures.
_handle_escrow_agent_status(infos, event) ==
    IF event.content = "invalid"
    THEN infos
    ELSE IF /\ event.pubkey \in DOMAIN infos
            /\ event.created_at <= OrZero(infos[event.pubkey].status_ts)
    THEN infos
    ELSE With(infos, event.pubkey,
              [InfoOf(infos, event.pubkey) EXCEPT
                  !.liquidity = Some(event.content),
                  !.status_ts = Some(event.created_at)])

\* the 'r' tags of a relay-list event that are valid websocket URLs
RelaysOf(event) == IF event.content = "invalid" THEN <<>> ELSE <<event.content>>

(***************************************************************************)
(* _handle_escrow_agent_relay_list(event): reading agent_infos[pubkey]     *)
(* creates the entry; the relay list is replaced unless relay_ts is not    *)
(* older than the event.  relay_ts is not assigned.                        *)
(***************************************************************************)
_handle_escrow_agent_relay_list(infos, event) ==
    LET infos1 == With(infos, event.pubkey, InfoOf(infos, event.pubkey)) IN
    IF OrZero(infos1[event.pubkey].relay_ts) >= event.created_at
    THEN infos1
    ELSE With(infos1, event.pubkey,
              [infos1[event.pubkey] EXCEPT !.relays = Some(RelaysOf(event))])

(***************************************************************************)
(* _fetch_agent_events lines 136-154 for one event: an event of a pubkey   *)
(* that is neither cached nor in agent_pubkeys is skipped.  The "continue" *)
(* of the network check (line 144) continues the loop over the tags, so    *)
(* the check skips nothing.  The event is then dispatched on its kind.     *)
(***************************************************************************)
Dispatch(infos, pubkeys, event) ==
    IF event.pubkey \notin DOMAIN infos /\ event.pubkey \notin pubkeys
    THEN infos
    ELSE CASE event.kind = AGENT_PROFILE_EVENT_KIND ->
                _handle_escrow_agent_profile(infos, event)
           [] event.kind = AGENT_STATUS_EVENT_KIND ->
                _handle_escrow_agent_status(infos, event)
           [] event.kind = AGENT_RELAY_LIST_METADATA_KIND ->
                _handle_escrow_agent_relay_list(infos, event)
           [] OTHER -> infos

\* relay_latest after the event has gone through lines 136-154
RelayLatest(latest, infos, pubkeys, event) ==
    IF \/ event.pubkey \notin DOMAIN infos /\ event.pubkey \notin pubkeys
       \/ event.kind # AGENT_RELAY_LIST_METADATA_KIND
       \/ event.pubkey \in DOMAIN latest
            /\ latest[event.pubkey].created_at >= event.created_at
    THEN latest
    ELSE With(latest, event.pubkey,
              [created_at |-> event.created_at, relays |-> RelaysOf(event)])

other_vars == <<agent_vars, life_vars, payout_vars, more_vars>>

(***************************************************************************)
(* _fetch_agent_events lines 117-129: with a non-empty trusted set the     *)
(* subscription job is submitted and the loop waits on the queue.  With an *)
(* empty set the loop sleeps one second and looks again.                   *)
(***************************************************************************)
_fetch_agent_events_subscribe ==
    /\ client_pc = "poll"
    /\ storage_agents # {}
    /\ _add("fetch")
    /\ fetch_job_id' = Cardinality(Submitted) + 1
    /\ query_authors' = [query_authors EXCEPT ![Cardinality(Submitted) + 1] = storage_agents]
    /\ agent_pubkeys' = storage_agents
    /\ aliased' = TRUE
    /\ client_pc' = "get"
    /\ UNCHANGED <<storage_agents, agent_infos, event_queue, client_trades, client_exc, relay_latest>>
    /\ UNCHANGED other_vars

\* lines 130-154: the next item of the queue is an event
_fetch_agent_events_event(event) ==
    /\ client_pc = "get"
    /\ event_queue # <<>>
    /\ Head(event_queue) = "event"
    /\ event_queue' = Tail(event_queue)
    /\ agent_infos' = Dispatch(agent_infos, agent_pubkeys, event)
    /\ relay_latest' = RelayLatest(relay_latest, agent_infos, agent_pubkeys, event)
    /\ UNCHANGED <<storage_agents, agent_pubkeys, aliased, fetch_job_id, query_authors,
                   client_pc, client_trades, client_exc>>
    /\ UNCHANGED <<sched_vars, other_vars>>

\* lines 130-133: the next item of the queue is None
_fetch_agent_events_none ==
    /\ client_pc = "get"
    /\ event_queue # <<>>
    /\ Head(event_queue) = "None"
    /\ event_queue' = Tail(event_queue)
    /\ client_pc' = "sleep"
    /\ UNCHANGED <<storage_agents, agent_pubkeys, aliased, agent_infos, fetch_job_id,
                   query_authors, client_trades, client_exc, relay_latest>>
    /\ UNCHANGED <<sched_vars, other_vars>>

\* line 132: asyncio.sleep(10) returns, break
_fetch_agent_events_sleep ==
    /\ client_pc = "sleep"
    /\ client_pc' = "poll"
    /\ UNCHANGED <<storage_agents, agent_pubkeys, aliased, agent_infos, event_queue,
                   fetch_job_id, query_authors, client_trades, client_exc, relay_latest>>
    /\ UNCHANGED <<sched_vars, other_vars>>

\* reload_agents(): cancels the job of the last subscription, if any
reload_agents ==
    IF fetch_job_id # 0 THEN _cancel(fetch_job_id) ELSE UNCHANGED sched_vars

\* add_escrow_agent(agent_pubkey): a new list is stored, then reload_agents()
add_escrow_agent(agent_pubkey) ==
    /\ storage_agents' = storage_agents \cup {agent_pubkey}
    /\ aliased' = FALSE
    /\ reload_agents
    /\ UNCHANGED <<agent_pubkeys, agent_infos, event_queue, fetch_job_id, query_authors,
                   client_pc, client_trades, client_exc, relay_latest>>
    /\ UNCHANGED other_vars

(***************************************************************************)
(* delete_escrow_agent(agent_pubkey): the pubkey is removed from the       *)
(* stored list in place (the loop's agent_pubkeys is that list if it was   *)
(* read since the last add), then reload_agents().  An unknown pubkey is   *)
(* left alone.                                                             *)
(***************************************************************************)
delete_escrow_agent(agent_pubkey) ==
    /\ agent_pubkey \in storage_agents
    /\ storage_agents' = storage_agents \ {agent_pubkey}
    /\ agent_pubkeys' = IF aliased THEN agent_pubkeys \ {agent_pubkey} ELSE agent_pubkeys
    /\ reload_agents
    /\ UNCHANGED <<aliased, agent_infos, event_queue, fetch_job_id, query_authors,
                   client_pc, client_trades, client_exc, relay_latest>>
    /\ UNCHANGED other_vars

\* fetch_events._job line 219: the running job puts an event on the queue
JobPutsEvent ==
    \E j \in Jobs :
        /\ job_state[j] = "running"
        /\ job_kind[j] = "fetch"
        /\ Len(event_queue) < MaxQueue
        /\ event_queue' = Append(event_queue, "event")
        /\ UNCHANGED <<storage_agents, agent_pubkeys, aliased, agent_infos, fetch_job_id,
                       query_authors, client_pc, client_trades, client_exc, relay_latest>>
        /\ UNCHANGED <<sched_vars, other_vars>>

\* fetch_events._job line 221, the queue being the client's event_queue
JobPutsSentinel ==
    \E j \in Jobs :
        /\ put_tasks[j] > 0
        /\ Len(event_queue) < MaxQueue
        /\ put_tasks' = [put_tasks EXCEPT ![j] = @ - 1]
        /\ output_queue' = [output_queue EXCEPT ![j] = Append(@, "None")]
        /\ event_queue' = Append(event_queue, "None")
        /\ UNCHANGED <<main_task, callbacks, jobs, jobs_event, running_tasks,
                       pc, session, closing, job_state, job_kind, launches,
                       opens, closes, session_errors>>
        /\ UNCHANGED <<storage_agents, agent_pubkeys, aliased, agent_infos, fetch_job_id,
                       query_authors, client_pc, client_trades, client_exc, relay_latest>>
        /\ UNCHANGED other_vars

TradeIds == 1..MaxTrades

\* Fault variant of save_new_trade: the status of the invoice is not checked.
save_new_trade_unpaid(trade_id, funding_invoice_key, status) ==
    /\ IF trade_id \notin DOMAIN client_trades /\ funding_invoice_key # None
          /\ status # "missing"
       THEN /\ client_trades' =
                    With(client_trades, trade_id,
                         [funding_invoice_key |-> funding_invoice_key,
                          funding_status |-> status])
            /\ client_exc' = "none"
       ELSE /\ client_exc' = "AssertionError"
            /\ UNCHANGED client_trades
    /\ UNCHANGED <<storage_agents, agent_pubkeys, aliased, agent_infos, event_queue,
                   fetch_job_id, query_authors, client_pc, relay_latest>>
    /\ UNCHANGED <<sched_vars, other_vars>>

(***************************************************************************)
(* save_new_trade(trade_id, trade): the four assertions, then the trade is *)
(* stored.  status is what the wallet holds for trade.funding_invoice_key: *)
(* no invoice ("missing") or the status of the invoice.  The stored record *)
(* keeps the status that was seen.                                         *)
(***************************************************************************)
save_new_trade(trade_id, funding_invoice_key, status) ==
    /\ IF trade_id \notin DOMAIN client_trades /\ funding_invoice_key # None
          /\ status = "PR_PAID"
       THEN /\ client_trades' =
                    With(client_trades, trade_id,
                         [funding_invoice_key |-> funding_invoice_key,
                          funding_status |-> status])
            /\ client_exc' = "none"
       ELSE /\ client_exc' = "AssertionError"
            /\ UNCHANGED client_trades
    /\ UNCHANGED <<storage_agents, agent_pubkeys, aliased, agent_infos, event_queue,
                   fetch_job_id, query_authors, client_pc, relay_latest>>
    /\ UNCHANGED <<sched_vars, other_vars>>

SaveTrade ==
    \E trade_id \in TradeIds, funding_invoice_key \in {None, Some("k1"), Some("k2")},
       status \in {"missing", "PR_UNPAID", "PR_PAID"} :
        save_new_trade(trade_id, funding_invoice_key, status)

TradeSpec == Init /\ [][SaveTrade]_vars

\* the agents the user of the cache specification configures
CacheAgents == {"A"}

ClientDriver ==
    \/ start
    \/ JobsEventWait
    \/ OpenSession
    \/ GraceWake
    \/ GraceTimeout
    \/ TaskWake
    \/ CloseSession
    \/ TaskStart
    \/ TaskFinish

ClientNext ==
    \/ _fetch_agent_events_subscribe
    \/ \E event \in Events : _fetch_agent_events_event(event)
    \/ _fetch_agent_events_none
    \/ _fetch_agent_events_sleep
    \/ \E agent_pubkey \in CacheAgents : add_escrow_agent(agent_pubkey)
    \/ \E agent_pubkey \in CacheAgents : delete_escrow_agent(agent_pubkey)
    \/ JobPutsEvent
    \/ JobPutsSentinel
    \/ ClientDriver

ClientSpec == Init /\ [][ClientNext]_vars

(***************************************************************************)
(* The discovery loop with two agents to configure; the events delivered   *)
(* are of a kind the client does not handle.                               *)
(***************************************************************************)
DiscoveryNext ==
    \/ _fetch_agent_events_subscribe
    \/ \E event \in UnwantedEvents : _fetch_agent_events_event(event)
    \/ _fetch_agent_events_none
    \/ _fetch_agent_events_sleep
    \/ \E agent_pubkey \in Pubkeys : add_escrow_agent(agent_pubkey)
    \/ \E agent_pubkey \in Pubkeys : delete_escrow_agent(agent_pubkey)
    \/ JobPutsEvent
    \/ JobPutsSentinel
    \/ ClientDriver

DiscoverySpec == Init /\ [][DiscoveryNext]_vars

(***************************************************************************)
(* The event loop runs every coroutine that is ready: the discovery loop,  *)
(* the driver of the nostr worker (started when the plugin loads), the     *)
(* launched tasks and the task that puts None on the queue.  The user's    *)
(* calls, the relays' events and the end of a subscription need not occur. *)
(***************************************************************************)
DiscoveryFairSpec ==
    /\ DiscoverySpec
    /\ WF_vars(_fetch_agent_events_subscribe)
    /\ WF_vars(\E event \in UnwantedEvents : _fetch_agent_events_event(event))
    /\ WF_vars(_fetch_agent_events_none)
    /\ WF_vars(_fetch_agent_events_sleep)
    /\ WF_vars(JobPutsSentinel)
    /\ WF_vars(start)
    /\ WF_vars(JobsEventWait)
    /\ WF_vars(OpenSession)
    /\ WF_vars(GraceWake)
    /\ WF_vars(GraceTimeout)
    /\ WF_vars(TaskWake)
    /\ WF_vars(CloseSession)
    /\ WF_vars(TaskStart)

(***************************************************************************)
(* TradeContract (escrow_worker.py 50-73).  Strings are sequences of       *)
(* characters.  sha256 is taken as collision free: a digest is the record  *)
(* of its preimage.  Schnorr signatures are taken as unforgeable: a        *)
(* signature is the record of the signer's public key and the message.     *)
(***************************************************************************)
Digits == <<"0", "1", "2", "3", "4", "5", "6", "7", "8", "9">>

\* str(n) of a non-negative int
RECURSIVE str(_)
str(n) == IF n < 10 THEN <<Digits[n + 1]>>
          ELSE str(n \div 10) \o <<Digits[(n % 10) + 1]>>

sha256(preimage) == [sha256 |-> preimage]

PrivateKeys == {"k1", "k2"}

\* the public key of a private key
PubkeyOf(privkey) == <<"pub", privkey>>

schnorr_sign(privkey, msg32) == [signer |-> PubkeyOf(privkey), msg32 |-> msg32]

schnorr_verify(pubkey, sig64, msg32) == sig64.signer = pubkey /\ sig64.msg32 = msg32

\* the valid contracts signed and verified
Contracts ==
    [title : {<<"a">>, <<"a", "b">>},
     contract : {<<"b", "c">>, <<"c">>},
     trade_amount_sat : {10001, 100012},
     bond_sat : {23, 3}]

\* the f-string of contract_hash
contract_preimage(c) ==
    <<"E", "S", "C", "R", "O", "W">> \o c.title \o c.contract
        \o str(c.trade_amount_sat) \o str(c.bond_sat)

contract_hash(c) == sha256(contract_preimage(c))

TradeContract_verify(c, sig, pubkey) == schnorr_verify(pubkey, sig, contract_hash(c))

TradeContract_sign(c, privkey) == schnorr_sign(privkey, contract_hash(c))

other_than_contract_vars ==
    <<sched_vars, agent_vars, life_vars, payout_vars, client_vars, request_vars,
      postbox_vars>>

\* a caller signs contract c with a private key
ContractSign ==
    \E c \in Contracts, privkey \in PrivateKeys :
        /\ signed_contract' = Some(c)
        /\ signed_privkey' = Some(privkey)
        /\ signature' = Some(TradeContract_sign(c, privkey))
        /\ verified' = None
        /\ UNCHANGED other_than_contract_vars

\* a caller verifies the last signature for contract c and a public key
ContractVerify ==
    \E c \in Contracts, privkey \in PrivateKeys :
        /\ signature # None
        /\ verified' = Some([contract |-> c, pubkey |-> PubkeyOf(privkey),
                             valid |-> TradeContract_verify(c, signature[1],
                                                            PubkeyOf(privkey))])
        /\ UNCHANGED <<signed_contract, signed_privkey, signature>>
        /\ UNCHANGED other_than_contract_vars

ContractNext ==
    \/ ContractSign
    \/ ContractVerify

ContractSpec == Init /\ [][ContractNext]_vars

(***************************************************************************)
(* EscrowClient.request_register_escrow (client.py 260-320) with           *)
(* send_encrypted_ephemeral_message_and_await_response (nostr_worker.py    *)
(* 318-378).  Of the relay scheduler the call's own jobs are kept: the     *)
(* state of its subscription job, the number of subscription jobs it has   *)
(* submitted and not cancelled, and the number of its broadcast jobs.      *)
(***************************************************************************)
other_than_request_vars ==
    <<sched_vars, agent_vars, life_vars, payout_vars, client_vars, contract_vars,
      postbox_vars>>

\* get_nostr_privkey_for_wallet(wallet, key_id): sha256 of xpub and key_id
get_nostr_privkey_for_wallet(key_id) == sha256(<<"nostr_escrow:", "xpub", key_id>>)

\* get_new_privkey_for_trade lines 247-249 with trades t
new_key_id(t) == Cardinality(DOMAIN t)

\* the fields of the dataclass ClientEscrowTrade
ClientEscrowTradeFields ==
    {"state", "contract", "payment_direction", "payment_protocol",
     "onchain_fallback_address", "escrow_agent_pubkey", "trade_protocol_version",
     "creation_timestamp", "funding_invoice_key", "postbox_key", "_private_key"}

ClientEscrowTrade(state, contract, direction, protocol, agent_pubkey, version) ==
    [state |-> state, contract |-> contract,
     payment_direction |-> direction,
     payment_protocol |-> protocol,
     onchain_fallback_address |-> "address",
     escrow_agent_pubkey |-> agent_pubkey,
     trade_protocol_version |-> version,
     creation_timestamp |-> 0,
     funding_invoice_key |-> None, postbox_key |-> None, _private_key |-> None]

\* dataclasses.replace(obj, **changes): a keyword that is no field of the
\* dataclass makes the constructor raise TypeError
dataclasses_replace(obj, changes) ==
    IF DOMAIN changes \subseteq DOMAIN obj
    THEN [exc |-> "none",
          value |-> [f \in DOMAIN obj |->
                        IF f \in DOMAIN changes THEN changes[f] ELSE obj[f]]]
    ELSE [exc |-> "TypeError", value |-> None]

\* the trades a maker registers
RequestTrades ==
    {ClientEscrowTrade(WAITING_FOR_TAKER,
                       CHOOSE c \in Contracts : c.title = <<"a">> /\ c.bond_sat = 3
                                                /\ c.contract = <<"c">>
                                                /\ c.trade_amount_sat = 10001,
                       SENDING, protocol, "agent", PROTOCOL_VERSION) :
        protocol \in {BITCOIN_LIGHTNING, BITCOIN_ONCHAIN}}

\* a content that does not decrypt with the call's key to a JSON dict
Undecodable ==
    [dict |-> FALSE, error |-> None, trade_id |-> None, bolt11_invoice |-> None]

\* the contents of an agent's response: undecodable, or the fields "error",
\* "trade_id" and "bolt11_invoice" of the dict (None if absent); "i1" is a
\* valid invoice with key "i1", "x" is no invoice
ResponseContents ==
    {Undecodable,
     [dict |-> TRUE, error |-> Some("e"), trade_id |-> None, bolt11_invoice |-> None],
     [dict |-> TRUE, error |-> None, trade_id |-> None, bolt11_invoice |-> Some("i1")],
     [dict |-> TRUE, error |-> None, trade_id |-> Some("t1"), bolt11_invoice |-> None],
     [dict |-> TRUE, error |-> None, trade_id |-> Some("t1"), bolt11_invoice |-> Some("x")],
     [dict |-> TRUE, error |-> None, trade_id |-> Some("t1"), bolt11_invoice |-> Some("i1")]}

\* the events a relay can deliver for the query: the query has no author
ResponseEvents ==
    {[pubkey |-> "agent", content |-> c] : c \in ResponseContents}
        \cup {[pubkey |-> "other", content |-> Undecodable]}

\* the None that ends a job's output, as an item of the response queue
ResponseSentinel == [pubkey |-> "None", content |-> Undecodable]

\* Invoice.from_bech32(b11_invoice).get_id(), None on InvoiceError
InvoiceKey(b11_invoice) == IF b11_invoice = "i1" THEN Some("i1") ELSE None

\* cancel_job(job_id) of the finally block, if job_id is set
FinallyCancel(uncancelled) == IF req_job # "none" THEN uncancelled - 1 ELSE uncancelled

(***************************************************************************)
(* request_register_escrow lines 295-320 for response dict `response`:     *)
(* the exception raised, or the pair returned.                             *)
(***************************************************************************)
register_result(trade, privkey, response, invoices) ==
    IF response.error # None \/ response.trade_id = None
    THEN [exc |-> "UserFacingException", value |-> None, saved |-> {}]
    ELSE IF trade.payment_protocol # BITCOIN_LIGHTNING
    THEN [exc |-> "NotImplementedError", value |-> None, saved |-> {}]
    ELSE IF response.bolt11_invoice = None
    THEN [exc |-> "UserFacingException", value |-> None, saved |-> {}]
    ELSE IF InvoiceKey(response.bolt11_invoice[1]) = None
    THEN [exc |-> "UserFacingException", value |-> None, saved |-> {}]
    ELSE IF InvoiceKey(response.bolt11_invoice[1])[1] \in invoices
    THEN [exc |-> "UserFacingException", value |-> None, saved |-> {}]
    ELSE LET key == InvoiceKey(response.bolt11_invoice[1])[1]
             r == dataclasses_replace(trade,
                    [funding_invoice_key |-> Some(key), private_key |-> Some(privkey)])
         IN  IF r.exc # "none"
             THEN [exc |-> r.exc, value |-> None, saved |-> {}]
             ELSE [exc |-> "none",
                   value |-> Some([trade |-> r.value,
                                   response |-> [trade_id |-> response.trade_id[1],
                                                 funding_invoice |-> key]]),
                   saved |-> {}]

(***************************************************************************)
(* The call up to its first await: the key, the payload, the subscription  *)
(* job, the broadcast job, query_start.                                    *)
(***************************************************************************)
request_register_escrow(trade) ==
    /\ req_pc \in {"idle", "done"}
    /\ Len(req_key_ids) < MaxCalls
    /\ req_trade_in' = Some(trade)
    /\ req_key_ids' = Append(req_key_ids, new_key_id(client_trades))
    /\ req_privkey' = Some(get_nostr_privkey_for_wallet(new_key_id(client_trades)))
    /\ req_queue' = <<>>
    /\ req_job' = "live"
    /\ req_uncancelled' = req_uncancelled + 1
    /\ req_broadcasts' = 1
    /\ req_timeout_sec' = REQUEST_TIMEOUT_SEC
    /\ req_elapsed' = 0
    /\ req_waited' = 0
    /\ req_exc' = "none"
    /\ req_returned' = None
    /\ req_pc' = "waiting"
    /\ UNCHANGED client_invoices
    /\ UNCHANGED other_than_request_vars

RegisterCall == \E trade \in RequestTrades : request_register_escrow(trade)

\* a relay delivers an event that matches the query
ResponseJobPutsEvent ==
    \E event \in ResponseEvents :
        /\ req_pc = "waiting"
        /\ req_job = "live"
        /\ Len(req_queue) < MaxQueue
        /\ req_queue' = Append(req_queue, event)
        /\ UNCHANGED <<req_pc, req_trade_in, req_privkey, req_key_ids, req_timeout_sec,
                       req_elapsed, req_waited, req_job, req_uncancelled,
                       req_broadcasts, req_exc, req_returned, client_invoices>>
        /\ UNCHANGED other_than_request_vars

\* the subscription job ends: the scheduler puts the None sentinel
ResponseJobPutsSentinel ==
    /\ req_pc = "waiting"
    /\ req_job = "live"
    /\ Len(req_queue) < MaxQueue
    /\ req_queue' = Append(req_queue, ResponseSentinel)
    /\ req_job' = "ended"
    /\ UNCHANGED <<req_pc, req_trade_in, req_privkey, req_key_ids, req_timeout_sec,
                   req_elapsed, req_waited, req_uncancelled,
                   req_broadcasts, req_exc, req_returned, client_invoices>>
    /\ UNCHANGED other_than_request_vars

\* one second passes while the call waits
RequestTick ==
    /\ req_pc = "waiting"
    /\ req_waited < req_timeout_sec
    /\ req_waited' = req_waited + 1
    /\ req_elapsed' = IF req_elapsed < REQUEST_TIMEOUT_SEC
                      THEN req_elapsed + 1 ELSE req_elapsed
    /\ UNCHANGED <<req_pc, req_trade_in, req_privkey, req_key_ids, req_timeout_sec,
                   req_queue, req_job, req_uncancelled,
                   req_broadcasts, req_exc, req_returned, client_invoices>>
    /\ UNCHANGED other_than_request_vars

\* wait_for2 times out: TimeoutError, the finally block, and the
\* UserFacingException of request_register_escrow line 289
await_response_timeout ==
    /\ req_pc = "waiting"
    /\ req_waited >= req_timeout_sec
    /\ req_uncancelled' = FinallyCancel(req_uncancelled)
    /\ req_job' = "none"
    /\ req_exc' = "UserFacingException"
    /\ req_pc' = "done"
    /\ UNCHANGED <<req_trade_in, req_privkey, req_key_ids, req_timeout_sec, req_elapsed,
                   req_waited, req_queue, req_broadcasts, req_returned,
                   client_invoices>>
    /\ UNCHANGED other_than_request_vars

(***************************************************************************)
(* wait_for2 returns the head of the queue.  None: the timeout is reduced, *)
(* the job cancelled and a new one submitted.  An event of another author: *)
(* the inner loop waits again.  An event of the recipient: the content is  *)
(* decoded and the call ends by lines 290-320.                             *)
(***************************************************************************)
await_response_get ==
    /\ req_pc = "waiting"
    /\ req_queue # <<>>
    /\ req_queue' = Tail(req_queue)
    /\ LET resp_event == Head(req_queue) IN
        IF resp_event = ResponseSentinel
        THEN /\ req_timeout_sec' = IF req_timeout_sec - req_elapsed > 0
                                   THEN req_timeout_sec - req_elapsed ELSE 0
             /\ req_uncancelled' = FinallyCancel(req_uncancelled) + 1
             /\ req_job' = "live"
             /\ req_waited' = 0
             /\ UNCHANGED <<req_pc, req_exc, req_returned>>
        ELSE IF resp_event.pubkey # req_trade_in[1].escrow_agent_pubkey
        THEN /\ req_waited' = 0
             /\ UNCHANGED <<req_pc, req_timeout_sec, req_job, req_uncancelled, req_exc,
                            req_returned>>
        ELSE /\ req_uncancelled' = FinallyCancel(req_uncancelled)
             /\ req_job' = "none"
             /\ req_pc' = "done"
             /\ IF ~resp_event.content.dict
                THEN /\ req_exc' = "UserFacingException"
                     /\ req_returned' = None
                ELSE LET r == register_result(req_trade_in[1], req_privkey[1],
                                              resp_event.content, client_invoices)
                     IN  /\ req_exc' = r.exc
                         /\ req_returned' = r.value
             /\ UNCHANGED <<req_timeout_sec, req_waited>>
    /\ UNCHANGED <<req_trade_in, req_privkey, req_key_ids, req_elapsed, req_broadcasts,
                   client_invoices>>
    /\ UNCHANGED other_than_request_vars

\* other code of the wallet saves the invoice with key "i1"
wallet_save_invoice ==
    /\ "i1" \notin client_invoices
    /\ client_invoices' = client_invoices \cup {"i1"}
    /\ UNCHANGED <<req_pc, req_trade_in, req_privkey, req_key_ids, req_timeout_sec,
                   req_elapsed, req_waited, req_queue, req_job, req_uncancelled,
                   req_broadcasts, req_exc, req_returned>>
    /\ UNCHANGED other_than_request_vars

\* the caller saves a funded trade between two registrations
SaveRegisteredTrade ==
    \E trade_id \in 1..MaxCalls :
        /\ req_pc \in {"idle", "done"}
        /\ save_new_trade(trade_id, Some("k1"), "PR_PAID")

RequestNext ==
    \/ RegisterCall
    \/ ResponseJobPutsEvent
    \/ ResponseJobPutsSentinel
    \/ RequestTick
    \/ await_response_timeout
    \/ await_response_get
    \/ wallet_save_invoice
    \/ SaveRegisteredTrade

RequestSpec == Init /\ [][RequestNext]_vars

(***************************************************************************)
(* Fairness: the clock advances, and the event loop resumes the waiting    *)
(* call on a timeout and on a queued item.  What the relays deliver is not *)
(* under the control of the code.                                          *)
(***************************************************************************)
RequestFairSpec ==
    /\ RequestSpec
    /\ WF_vars(RequestTick)
    /\ WF_vars(await_response_timeout)
    /\ WF_vars(await_response_get)

(***************************************************************************)
(* The postbox: create_trade_postbox (client.py 322-359) and               *)
(* create_trade_from_postbox (361-442).                                    *)
(*                                                                         *)
(* convertbits regroups a sequence of frombits-bit values into tobits-bit  *)
(* values, as the bech32 reference does.  A token is the record of its     *)
(* human-readable part, its 5-bit data groups and its checksum; the        *)
(* checksum is a weighted sum of the groups plus a constant of the         *)
(* encoding, which like the one of bech32 changes with every single        *)
(* flipped data bit.                                                       *)
(***************************************************************************)
other_than_postbox_vars ==
    <<sched_vars, agent_vars, life_vars, payout_vars, client_vars, contract_vars,
      request_vars>>

RECURSIVE Pow2(_)
Pow2(n) == IF n = 0 THEN 1 ELSE 2 * Pow2(n - 1)

\* the inner while loop of convertbits
RECURSIVE convertbits_drain(_, _, _, _)
convertbits_drain(acc, bits, ret, tobits) ==
    IF bits >= tobits
    THEN convertbits_drain(acc, bits - tobits,
                           Append(ret, (acc \div Pow2(bits - tobits)) % Pow2(tobits)),
                           tobits)
    ELSE [bits |-> bits, ret |-> ret]

\* the for loop of convertbits
RECURSIVE convertbits_loop(_, _, _, _, _, _)
convertbits_loop(data, acc, bits, ret, frombits, tobits) ==
    IF data = <<>>
    THEN [acc |-> acc, bits |-> bits, ret |-> ret]
    ELSE LET acc2 == (acc * Pow2(frombits) + Head(data)) % Pow2(frombits + tobits - 1)
             d == convertbits_drain(acc2, bits + frombits, ret, tobits)
         IN  convertbits_loop(Tail(data), acc2, d.bits, d.ret, frombits, tobits)

\* convertbits(data, frombits, tobits, pad): the regrouped values, or None
convertbits(data, frombits, tobits, pad) ==
    IF \E i \in 1..Len(data) : data[i] >= Pow2(frombits)
    THEN None
    ELSE LET r == convertbits_loop(data, 0, 0, <<>>, frombits, tobits)
             rest == (r.acc * Pow2(tobits - r.bits)) % Pow2(tobits)
         IN  IF pad
             THEN Some(IF r.bits > 0 THEN Append(r.ret, rest) ELSE r.ret)
             ELSE IF r.bits >= frombits \/ rest # 0
             THEN None
             ELSE Some(r.ret)

RECURSIVE WeightedSum(_, _)
WeightedSum(data, i) ==
    IF i > Len(data) THEN 0 ELSE (2 * i - 1) * data[i] + WeightedSum(data, i + 1)

HrpValue(hrp) == IF hrp = "trade" THEN 7 ELSE 11

EncodingConst(encoding) == IF encoding = "BECH32" THEN 1 ELSE 163

bech32_encode(encoding, hrp, data) ==
    [hrp |-> hrp, data |-> data,
     checksum |-> (WeightedSum(data, 1) + HrpValue(hrp) + EncodingConst(encoding)) % 1024]

\* bech32_decode(bech): encoding "None" when the checksum matches no encoding
bech32_decode(bech) ==
    LET c == (bech.checksum + 2048 - WeightedSum(bech.data, 1) - HrpValue(bech.hrp)) % 1024
    IN  IF c = EncodingConst("BECH32")
        THEN [encoding |-> "BECH32", hrp |-> bech.hrp, data |-> bech.data]
        ELSE IF c = EncodingConst("BECH32M")
        THEN [encoding |-> "BECH32M", hrp |-> bech.hrp, data |-> bech.data]
        ELSE [encoding |-> "None", hrp |-> "None", data |-> <<>>]

\* the raw secrets PrivateKey() can draw, two bytes each
PostboxSecrets == {<<18, 52>>, <<171, 205>>}

\* the tokens create_trade_postbox can return
ValidTokens ==
    {bech32_encode("BECH32", "trade", convertbits(secret, 8, 5, TRUE)[1]) :
        secret \in PostboxSecrets}

\* bit k of 5-bit group d flipped
FlipBit(d, k) == IF (d \div Pow2(k)) % 2 = 1 THEN d - Pow2(k) ELSE d + Pow2(k)

\* the valid tokens with one data bit flipped
FlippedTokens ==
    {[t EXCEPT !.data[i] = FlipBit(t.data[i], k)] :
        t \in ValidTokens, i \in 1..4, k \in 0..4}

\* the tokens a taker passes to create_trade_from_postbox
TakerTokens ==
    ValidTokens \cup FlippedTokens
        \cup {bech32_encode("BECH32M", "trade", <<2, 8, 26, 0>>),
              bech32_encode("BECH32", "trade", <<>>),
              bech32_encode("BECH32", "other", <<2, 8, 26, 0>>)}

SUPPORTED_PAYMENT_PROTOCOLS == {BITCOIN_LIGHTNING}

\* the strings that are 64 hex characters
HexPubkeys == {"agent"}

\* signing_key.encrypt_message(msg, recipient_pubkey) and
\* privkey.decrypt_message(content, sender_pubkey): the shared secret of
\* the two key pairs opens the message
encrypt_message(signing_key, msg, recipient_pubkey) ==
    [from |-> PubkeyOf(signing_key), to |-> recipient_pubkey, msg |-> msg]

decrypts(privkey, content, sender_pubkey) ==
    content.to = PubkeyOf(privkey) /\ content.from = sender_pubkey

\* _prepare_event for a direct message: the event as stored by a relay
DirectMessage(signing_key, recipient_pubkey, cleartext_content) ==
    [pubkey |-> PubkeyOf(signing_key), p |-> recipient_pubkey,
     content |-> encrypt_message(signing_key, cleartext_content, recipient_pubkey)]

\* the maker's persisted trades: with and without a trade key
MakerTrades ==
    {[ClientEscrowTrade(WAITING_FOR_TAKER,
                        CHOOSE c \in Contracts : c.title = <<"a">> /\ c.bond_sat = 3
                                                 /\ c.contract = <<"c">>
                                                 /\ c.trade_amount_sat = 10001,
                        direction, BITCOIN_LIGHTNING, "agent", PROTOCOL_VERSION)
        EXCEPT !._private_key = key] :
        direction \in {SENDING, RECEIVING}, key \in {None, Some("k1")}}

\* Fault variant of postbox_content: the maker's own direction is sent.
postbox_content_samedirection(trade) ==
    [contract |-> trade.contract,
     maker_contract_sig |-> TradeContract_sign(trade.contract, trade._private_key[1]),
     taker_payment_direction |-> trade.payment_direction,
     escrow_agent_pubkey |-> trade.escrow_agent_pubkey,
     trade_protocol_version |-> trade.trade_protocol_version,
     payment_protocol |-> trade.payment_protocol,
     payment_network |-> "local"]

\* postbox_content of create_trade_postbox lines 333-344
postbox_content(trade) ==
    [contract |-> trade.contract,
     maker_contract_sig |-> TradeContract_sign(trade.contract, trade._private_key[1]),
     taker_payment_direction |-> IF trade.payment_direction = SENDING
                                 THEN RECEIVING ELSE SENDING,
     escrow_agent_pubkey |-> trade.escrow_agent_pubkey,
     trade_protocol_version |-> trade.trade_protocol_version,
     payment_protocol |-> trade.payment_protocol,
     payment_network |-> "local"]

(***************************************************************************)
(* create_trade_postbox(trade_id) for the maker's trade and the random     *)
(* postbox key drawn.                                                      *)
(***************************************************************************)
create_trade_postbox(trade, secret) ==
    /\ pb_maker_trade = None
    /\ IF trade._private_key = None
       THEN /\ pb_maker_exc' = "AssertionError"
            /\ pb_maker_trade' = Some(trade)
            /\ UNCHANGED <<pb_postbox_key, pb_events>>
       ELSE LET postbox_key == bech32_encode("BECH32", "trade",
                                             convertbits(secret, 8, 5, TRUE)[1])
            IN  /\ pb_events' = pb_events \cup
                        {DirectMessage(trade._private_key[1], PubkeyOf(secret),
                                       postbox_content(trade))}
                /\ pb_postbox_key' = Some(postbox_key)
                /\ pb_maker_trade' = Some([trade EXCEPT !.postbox_key = Some(postbox_key)])
                /\ pb_maker_exc' = "none"
    /\ UNCHANGED <<pb_pc, pb_token, pb_privkey, pb_jobs, pb_uncancelled, pb_exc,
                   pb_result>>
    /\ UNCHANGED other_than_postbox_vars

CreatePostbox ==
    \E trade \in MakerTrades, secret \in PostboxSecrets :
        create_trade_postbox(trade, secret)

\* what another sender puts into a message to the postbox: the maker's
\* content with one field changed
ForeignContents(content) ==
    {[content EXCEPT !.maker_contract_sig =
            TradeContract_sign(content.contract, "k2")],
     [content EXCEPT !.maker_contract_sig =
            TradeContract_sign(content.contract, "k2"), !.payment_network = "other"],
     [content EXCEPT !.maker_contract_sig =
            TradeContract_sign(content.contract, "k2"), !.trade_protocol_version = 2],
     [content EXCEPT !.maker_contract_sig =
            TradeContract_sign(content.contract, "k2"), !.payment_protocol = BITCOIN_ONCHAIN],
     [content EXCEPT !.maker_contract_sig =
            TradeContract_sign(content.contract, "k2"), !.payment_protocol = 7],
     [content EXCEPT !.maker_contract_sig =
            TradeContract_sign(content.contract, "k2"), !.taker_payment_direction = 7],
     [content EXCEPT !.maker_contract_sig =
            TradeContract_sign(content.contract, "k2"), !.escrow_agent_pubkey = "nothex"],
     content}

\* a holder of the token publishes a message of its own to the postbox
ForeignPostboxEvent ==
    /\ pb_postbox_key # None
    /\ Cardinality(pb_events) < 2
    /\ \E maker_event \in pb_events :
        \E content \in ForeignContents(maker_event.content.msg) :
            pb_events' = pb_events \cup {DirectMessage("k2", maker_event.p, content)}
    /\ UNCHANGED <<pb_maker_trade, pb_postbox_key, pb_maker_exc, pb_pc, pb_token,
                   pb_privkey, pb_jobs, pb_uncancelled, pb_exc, pb_result>>
    /\ UNCHANGED other_than_postbox_vars

\* Fault variant of create_trade_from_postbox: the checksum is not checked.
create_trade_from_postbox_nochecksum(postbox_key) ==
    /\ pb_pc \in {"idle", "done"}
    /\ pb_token' = Some(postbox_key)
    /\ pb_result' = None
    /\ pb_privkey' = Some(convertbits(postbox_key.data, 5, 8, TRUE)[1])
    /\ pb_jobs' = 1
    /\ pb_uncancelled' = pb_uncancelled + 1
    /\ pb_exc' = "none"
    /\ pb_pc' = "waiting"
    /\ UNCHANGED <<pb_maker_trade, pb_postbox_key, pb_maker_exc, pb_events>>
    /\ UNCHANGED other_than_postbox_vars

(***************************************************************************)
(* create_trade_from_postbox(postbox_key) up to its await (lines 365-389): *)
(* the token is decoded and checked, then the subscription job submitted.  *)
(***************************************************************************)
create_trade_from_postbox(postbox_key) ==
    /\ pb_pc \in {"idle", "done"}
    /\ pb_token' = Some(postbox_key)
    /\ pb_result' = None
    /\ LET decoded_bech32 == bech32_decode(postbox_key)
           raises(exception) ==
                /\ pb_exc' = exception
                /\ pb_pc' = "done"
                /\ pb_jobs' = 0
                /\ UNCHANGED <<pb_privkey, pb_uncancelled>>
       IN  IF postbox_key.hrp # "trade"
           THEN raises("AssertionError")
           ELSE IF decoded_bech32.encoding = "None"
           THEN raises("ValueError")
           ELSE IF decoded_bech32.encoding # "BECH32"
           THEN raises("ValueError")
           ELSE IF decoded_bech32.data = <<>>
           THEN raises("none")
           ELSE IF convertbits(decoded_bech32.data, 5, 8, FALSE) = None
           THEN raises("TypeError")
           ELSE /\ pb_privkey' = Some(convertbits(decoded_bech32.data, 5, 8, FALSE)[1])
                /\ pb_jobs' = 1
                /\ pb_uncancelled' = pb_uncancelled + 1
                /\ pb_exc' = "none"
                /\ pb_pc' = "waiting"
    /\ UNCHANGED <<pb_maker_trade, pb_postbox_key, pb_maker_exc, pb_events>>
    /\ UNCHANGED other_than_postbox_vars

FromPostbox == \E postbox_key \in TakerTokens : create_trade_from_postbox(postbox_key)

(***************************************************************************)
(* create_trade_from_postbox lines 402-442 for the event received: the     *)
(* trade returned, or None.                                                *)
(***************************************************************************)
postbox_trade(postbox_privkey, event) ==
    IF ~decrypts(postbox_privkey, event.content, event.pubkey)
    THEN None
    ELSE LET content == event.content.msg IN
         IF ~TradeContract_verify(content.contract, content.maker_contract_sig,
                                  event.pubkey)
         THEN None
         ELSE IF content.taker_payment_direction \notin {SENDING, RECEIVING}
         THEN None
         ELSE IF content.escrow_agent_pubkey \notin HexPubkeys
         THEN None
         ELSE IF content.payment_protocol \notin {BITCOIN_ONCHAIN, BITCOIN_LIGHTNING}
         THEN None
         ELSE IF content.payment_network # "local"
         THEN None
         ELSE Some(ClientEscrowTrade(ONGOING, content.contract,
                                     content.taker_payment_direction,
                                     content.payment_protocol,
                                     content.escrow_agent_pubkey,
                                     content.trade_protocol_version))

\* the job delivers a stored event that matches the query: the wait
\* returns it, the job is cancelled, the content is parsed
postbox_receive(event) ==
    /\ pb_pc = "waiting"
    /\ event \in pb_events
    /\ event.p = PubkeyOf(pb_privkey[1])
    /\ pb_uncancelled' = pb_uncancelled - 1
    /\ pb_result' = postbox_trade(pb_privkey[1], event)
    /\ pb_pc' = "done"
    /\ UNCHANGED <<pb_maker_trade, pb_postbox_key, pb_maker_exc, pb_events, pb_token,
                   pb_privkey, pb_jobs, pb_exc>>
    /\ UNCHANGED other_than_postbox_vars

PostboxReceive == \E event \in pb_events : postbox_receive(event)

\* the wait times out, or the job ends without an event: None is returned
postbox_no_event ==
    /\ pb_pc = "waiting"
    /\ pb_uncancelled' = pb_uncancelled - 1
    /\ pb_result' = None
    /\ pb_pc' = "done"
    /\ UNCHANGED <<pb_maker_trade, pb_postbox_key, pb_maker_exc, pb_events, pb_token,
                   pb_privkey, pb_jobs, pb_exc>>
    /\ UNCHANGED other_than_postbox_vars

PostboxNext ==
    \/ CreatePostbox
    \/ ForeignPostboxEvent
    \/ FromPostbox
    \/ PostboxReceive
    \/ postbox_no_event

PostboxSpec == Init /\ [][PostboxNext]_vars

(***************************************************************************)
(* The inner loop of _handle_requests (agent.py 206-241) taking one event  *)
(* off event_queue: what the loop does with the event, by the first check  *)
(* that decides it.  TradeRPC(content.get('method')) accepts every value   *)
(* of the enumeration; the match statement has a case for five of them     *)
(* and `case _: raise NotImplementedError()`, which no try encloses.       *)
(***************************************************************************)
TradeRPC ==
    {"trade_funded", "register_escrow", "accept_escrow", "collaborative_confirm",
     "collaborative_cancel", "request_mediation"}

InboundEvent(decrypts_ok, json_ok, dict_ok, method) ==
    [decrypts |-> decrypts_ok, json |-> json_ok, dict |-> dict_ok, method |-> method]

InboundEvents ==
    {InboundEvent(FALSE, FALSE, FALSE, "none"),
     InboundEvent(TRUE, FALSE, FALSE, "none"),
     InboundEvent(TRUE, TRUE, FALSE, "none"),
     InboundEvent(TRUE, TRUE, TRUE, "none"),
     InboundEvent(TRUE, TRUE, TRUE, "pay_me")}
        \cup {InboundEvent(TRUE, TRUE, TRUE, m) : m \in TradeRPC}

match_method(event) ==
    CASE ~event.decrypts -> "continue"
      [] ~event.json -> "continue"
      [] ~event.dict -> "continue"
      [] event.method \notin TradeRPC -> "continue"
      [] event.method = "register_escrow" -> "_handle_register_escrow"
      [] event.method = "accept_escrow" -> "pass"
      [] event.method = "collaborative_confirm" -> "pass"
      [] event.method = "collaborative_cancel" -> "pass"
      [] event.method = "request_mediation" -> "pass"
      [] OTHER -> "raise"

HANDLE_REQUESTS == 4

event_queue_get(event) ==
    /\ subtasks[HANDLE_REQUESTS] = "running"
    /\ CASE match_method(event) = "_handle_register_escrow" ->
                \E request \in RegisterRequests, sender_pubkey \in SenderPubkeys :
                    register_escrow(request, sender_pubkey, "e1")
         [] match_method(event) = "raise" ->
                /\ subtasks' = OldTaskGroup_child_failed(subtasks, HANDLE_REQUESTS)
                /\ UNCHANGED <<agent_task, agent_callbacks>>
                /\ UNCHANGED <<sched_vars, agent_vars, payout_vars, client_vars, more_vars>>
         [] OTHER -> UNCHANGED vars

DispatchEvent == \E event \in InboundEvents : event_queue_get(event)

DispatchNext ==
    \/ main_loop_spawn
    \/ DispatchEvent

DispatchSpec == Init /\ [][DispatchNext]_vars

(***************************************************************************)
(* Registrations whose bond is any integer a maker can sign: the only      *)
(* check of bond_amount_sat is `is None` (agent.py 277-279), and the       *)
(* contract hash is taken over str(bond_sat) whatever its sign.            *)
(***************************************************************************)
BondAmounts == {-1, 0, 30}

BondRequests ==
    {[BaseRequest EXCEPT !.bond_amount_sat = b] : b \in BondAmounts} \cup InvalidRequests

register_escrow_bond ==
    \E request \in BondRequests, sender_pubkey \in MakerPubkeys, request_event_id \in EventIds :
        register_escrow(request, sender_pubkey, request_event_id)

BondNext ==
    \/ register_escrow_bond
    \/ on_event_request_status

BondSpec == Init /\ [][BondNext]_vars

(***************************************************************************)
(* EscrowWorker.create (escrow_worker.py 105-122) after a stop: a new      *)
(* EscrowAgent is constructed over the same wallet and storage and its     *)
(* main_loop is scheduled.  __init__ (agent.py 64-85) takes the payout     *)
(* schedule and the trades from the storage as they were left, starts with *)
(* an empty pending set and registers the callbacks.  The coroutine that   *)
(* awaited _pay_invoice ended with the cancelled task.                     *)
(***************************************************************************)
EscrowWorker_create ==
    /\ agent_task = "cancelled"
    /\ agent_task' = "running"
    /\ agent_callbacks' = TRUE
    /\ subtasks' = [t \in DOMAIN subtasks |-> "unspawned"]
    /\ pending_trades' = <<>>
    /\ paying' = 0
    /\ UNCHANGED <<lightning_invoices_to_pay, wallet_invoices, attempts, paid>>
    /\ UNCHANGED <<trades, wallet_requests, now, sent, replies, exc, next_trade_id>>
    /\ UNCHANGED <<sched_vars, client_vars, more_vars>>

PayoutStopNext ==
    \/ PayoutNext
    \/ EscrowAgent_stop
    \/ AgentTaskCancelled
    \/ EscrowWorker_create

PayoutStopSpec == Init /\ [][PayoutStopNext]_vars

\* The payout loop examines every entry in each pass, lnworker.pay_invoice
\* returns, time passes, a requested cancellation is processed by the event
\* loop, and a stopped actor is started again.
PayoutStopFairSpec ==
    /\ PayoutStopSpec
    /\ \A key \in InvoiceKeys : SF_vars(_pay_pending_lightning_invoices(key))
    /\ WF_vars(PayResult)
    /\ WF_vars(PayoutTick)
    /\ WF_vars(AgentTaskCancelled)
    /\ WF_vars(EscrowWorker_create)

(***************************************************************************)
(* _handle_register_escrow for a valid request when a call after           *)
(* wallet.create_request (line 296) raises: wallet.get_request or          *)
(* wallet.get_bolt11_invoice (lines 302-303).  The except clause (335-341) *)
(* logs and sends the error response; the request created at line 296 is   *)
(* left in the wallet and _add_new_trade is not reached.  The key of the   *)
(* request is named by the counter of the registrations, as for a trade.   *)
(***************************************************************************)
register_escrow_raises(request, sender_pubkey, request_event_id) ==
    /\ agent_task # "cancelled"
    /\ next_trade_id <= MaxRequests
    /\ ValidationError(request) = "ok"
    /\ wallet_requests' = create_request(wallet_requests, MakerKey(next_trade_id),
                                         funding_amount_sat(request))
    /\ next_trade_id' = next_trade_id + 1
    /\ exc' = "none"
    /\ replies' = SetToBag({EphemeralMessage(
            [error |-> TRUE, trade_id |-> 0, bolt11_invoice |-> 0],
            sender_pubkey, request_event_id)})
    /\ UNCHANGED <<pending_trades, trades, now, sent>>
    /\ UNCHANGED <<sched_vars, rest_vars>>

_handle_register_escrow_raises ==
    \E request \in Requests, sender_pubkey \in MakerPubkeys, request_event_id \in EventIds :
        register_escrow_raises(request, sender_pubkey, request_event_id)

OrphanNext ==
    \/ AgentStopNext
    \/ _handle_register_escrow_raises

OrphanSpec == Init /\ [][OrphanNext]_vars

(***************************************************************************)
(* Properties of the scheduler.                                            *)
(***************************************************************************)
TornDownStates == {"torn_down", "torn_down_unstarted"}

LivePcs == {"wait_jobs", "connecting", "grace", "wait", "closing",
            "closing_exc", "backoff"}

\* C1: with no job submitted no session is ever opened; with exactly one job
\* submitted at most one session is opened and closed, and once that job has
\* completed and the driver is back at waiting for jobs with the session
\* closed, exactly one session has been opened and it was closed exactly once.
SessionLifecycle ==
    /\ (Submitted = {} => opens = 0 /\ closes = 0 /\ ~session)
    /\ (Cardinality(Submitted) = 1 => opens <= 1 /\ closes <= 1)
    /\ (/\ Cardinality(Submitted) = 1
        /\ job_state[1] \in {"finished", "failed"}
        /\ pc = "wait_jobs" /\ ~session /\ closing = 0
        => opens = 1 /\ closes = 1)

SessionLifecycleWitness ==
    /\ Cardinality(Submitted) = 1
    /\ job_state[1] = "finished"
    /\ pc = "wait_jobs" /\ ~jobs_event
    /\ ~session /\ closing = 0
    /\ opens = 1 /\ closes = 1
    /\ callbacks /\ ~session_errors

\* C2: a subscription job that cancel_job has processed while it was queued
\* or running has the end-of-stream sentinel None on its output queue once
\* nothing is left that could still put it (the job is out of the queue, its
\* task has ended and no task created by the finally clause is pending).
CancelledJobGetsSentinel ==
    \A j \in Jobs :
        (/\ job_kind[j] = "fetch"
         /\ job_state[j] \in {"removed", "cancelled", "cancelled_unstarted"}
         /\ put_tasks[j] = 0)
        => "None" \in Range(output_queue[j])

\* C3: a proxy change event handled while the scheduler is started leaves the
\* driver without a session (an entered manager context is exiting), every
\* task that was running is ended and out of running_tasks and of the queue,
\* and a driver is waiting for jobs again; a job ended by a teardown stays
\* ended and is not launched again.
ProxyRestart ==
    /\ [][on_event_proxy_set =>
            /\ ~session'
            /\ closing' = closing + (IF session THEN 1 ELSE 0)
            /\ running_tasks' = {}
            /\ \A j \in running_tasks :
                /\ job_state'[j] \in DoneStates
                /\ job_state[j] \in {"created", "running"} => job_state'[j] \in TornDownStates
                /\ j \notin Range(jobs')
                /\ launches'[j] = launches[j]
            /\ main_task' /\ pc' = "wait_jobs"]_vars
    /\ [][\A j \in Jobs : job_state[j] \in TornDownStates =>
            /\ job_state'[j] = job_state[j]
            /\ launches'[j] = launches[j]
            /\ j \notin running_tasks'
            /\ j \notin Range(jobs')]_vars

ProxyRestartWitness ==
    /\ callbacks /\ ~session_errors
    /\ \E j \in Jobs : job_state[j] = "torn_down"
    /\ main_task /\ pc = "wait" /\ session
    /\ opens = 2

\* C4: every job is launched at most once.
LaunchedAtMostOnce ==
    \A j \in Jobs : launches[j] <= 1

LaunchedAtMostOnceWitness ==
    /\ \E j \in Jobs : job_state[j] \in TornDownStates /\ launches[j] = 1
    /\ \E j \in Jobs : job_state[j] = "running" /\ launches[j] = 1
    /\ session_errors
    /\ opens = 2

\* C5: once a job has raised or a session error has been caught, a started
\* scheduler still has a live driver, and a non-empty job queue is eventually
\* emptied (every queued job is launched, or removed by cancel_job) unless the
\* scheduler is stopped.
ErrorSeen ==
    \/ session_errors
    \/ \E k \in Jobs : job_state[k] = "failed" /\ k \notin running_tasks

DriverSurvivesErrors ==
    /\ [](ErrorSeen /\ main_task => pc \in LivePcs)
    /\ (ErrorSeen /\ main_task /\ jobs # <<>>) ~> (jobs = <<>> \/ ~main_task)

DriverSurvivesErrorsWitness ==
    /\ session_errors
    /\ job_state[1] = "failed" /\ 1 \notin running_tasks
    /\ job_state[2] = "running" /\ launches[2] = 1
    /\ opens = 2
    /\ main_task

(***************************************************************************)
(* Properties of the agent's trade bookkeeping.                            *)
(***************************************************************************)
MakerKeyOf(t) == t.trade_participants.maker.funding_request_key

\* C6: the pending set never holds more than MAX_AMOUNT_PENDING_TRADES trades.
PendingBounded ==
    Len(pending_trades) <= MAX_AMOUNT_PENDING_TRADES

\* more trades than the capacity were registered, none was funded and none
\* can have expired: the pending set is full and at least one was evicted
PendingBoundedWitness ==
    /\ Len(pending_trades) = MAX_AMOUNT_PENDING_TRADES
    /\ next_trade_id > MAX_AMOUNT_PENDING_TRADES + 1
    /\ trades = <<>>
    /\ now = 0

\* C7: a registration that calls _add_new_trade on a full pending set removes
\* exactly one pending trade, one with the smallest creation timestamp, and
\* deletes its maker funding request from the wallet; every other pending
\* trade and its funding request, and every persisted trade, is unchanged.
EvictionFrame ==
    [][(/\ next_trade_id' = next_trade_id + 1
        /\ Len(pending_trades) >= MAX_AMOUNT_PENDING_TRADES)
       => LET removed == {i \in 1..Len(pending_trades) :
                            pending_trades[i].id \notin Ids(pending_trades')}
          IN  /\ Cardinality(removed) = 1
              /\ \A i \in removed :
                    /\ \A k \in 1..Len(pending_trades) :
                            pending_trades[i].creation_timestamp
                                <= pending_trades[k].creation_timestamp
                    /\ MakerKeyOf(pending_trades[i]) \in DOMAIN wallet_requests
                    /\ MakerKeyOf(pending_trades[i]) \notin DOMAIN wallet_requests'
              /\ \A i \in (1..Len(pending_trades)) \ removed :
                    /\ pending_trades[i] \in Range(pending_trades')
                    /\ MakerKeyOf(pending_trades[i]) \in DOMAIN wallet_requests'
                    /\ wallet_requests'[MakerKeyOf(pending_trades[i])]
                            = wallet_requests[MakerKeyOf(pending_trades[i])]
              /\ Len(pending_trades') = Len(pending_trades)
              /\ pending_trades'[Len(pending_trades')].id = next_trade_id
              /\ trades' = trades]_vars

\* the last call registered a trade on a full pending set while a trade was
\* persisted: one trade was evicted, the persisted one is still there
EvictionFrameWitness ==
    /\ Len(pending_trades) = MAX_AMOUNT_PENDING_TRADES
    /\ Len(trades) = 1
    /\ next_trade_id = MAX_AMOUNT_PENDING_TRADES + 3
    /\ now = 1
    /\ pending_trades[1].creation_timestamp = 0
    /\ \E m \in DOMAIN replies :
            ~m.content.error /\ m.content.trade_id = next_trade_id - 1
    /\ Cardinality(DOMAIN wallet_requests) = MAX_AMOUNT_PENDING_TRADES + 1

\* C8: when the wallet reports PR_PAID for the maker funding request of a
\* pending trade, the trade leaves the pending set and is inserted into the
\* persisted map with the same id, state WAITING_FOR_TAKER and the same
\* content; no other pending or persisted trade changes.  Every pending
\* trade is in state WAITING_FOR_TAKER.
MakerFundingMoves ==
    /\ [](\A i \in 1..Len(pending_trades) :
            pending_trades[i].state = WAITING_FOR_TAKER)
    /\ [][\A i \in 1..Len(pending_trades) :
            request_status("self", MakerKeyOf(pending_trades[i]), "PR_PAID")
            => LET t == pending_trades[i] IN
               /\ t.id \notin Ids(trades)
               /\ pending_trades' = RemoveAt(pending_trades, i)
               /\ trades' = Append(trades, t)
               /\ trades'[Len(trades')].state = WAITING_FOR_TAKER
               /\ exc' = "none"]_vars

\* two makers have paid, the one registered later first: both trades are
\* persisted, the second without taker, and a third trade is still pending
MakerFundingMovesWitness ==
    /\ Len(trades) = 2
    /\ Len(pending_trades) = 1
    /\ trades[2].state = WAITING_FOR_TAKER
    /\ trades[2].trade_participants.taker = NoTaker
    /\ trades[1].id > trades[2].id
    /\ exc = "none"
    /\ replies = EmptyBag
    /\ sent = EmptyBag

\* The edges of the trade state machine.
DefinedEdges ==
    {<<WAITING_FOR_TAKER, ONGOING>>, <<ONGOING, MEDIATION>>, <<ONGOING, FINISHED>>,
     <<WAITING_FOR_TAKER, CANCELLED>>, <<ONGOING, CANCELLED>>}

TradeFundedCount(t) ==
    CopiesIn(TradeFundedMessage(t.id, t.trade_participants.maker.pubkey), sent)

StopDropsPending ==
    (agent_task = "cancelled" /\ ~agent_callbacks)
    => /\ pending_trades = <<>>
       /\ \A k \in DOMAIN wallet_requests :
            \E i \in 1..Len(trades) : MakerKeyOf(trades[i]) = k

\* C12: handling a register_escrow request that fails a validation check
\* creates no funding request, leaves the pending set and the persisted map
\* unchanged, issues no trade id, and sends exactly one response: an error,
\* addressed to the sender and correlated to the request event.
InvalidRequestRejected ==
    [][\A request \in InvalidRequests, sender_pubkey \in SenderPubkeys,
         request_event_id \in RequestEventIds :
            register_escrow(request, sender_pubkey, request_event_id)
            => /\ wallet_requests' = wallet_requests
               /\ pending_trades' = pending_trades
               /\ trades' = trades
               /\ next_trade_id' = next_trade_id
               /\ sent' = sent
               /\ BagCardinality(replies') = 1
               /\ \A m \in DOMAIN replies' :
                    /\ m.content.error
                    /\ m.recipient_pubkey = sender_pubkey
                    /\ m.response_to_id = request_event_id]_vars

\* an invalid request of B, event e2, was answered with an error while a
\* trade of A was pending and one was persisted
InvalidRequestRejectedWitness ==
    /\ \E m \in DOMAIN replies :
            m.content.error /\ m.recipient_pubkey = "B" /\ m.response_to_id = "e2"
    /\ Len(pending_trades) = 1
    /\ pending_trades[1].trade_participants.maker.pubkey = "A"
    /\ Len(trades) = 1
    /\ Cardinality(DOMAIN wallet_requests) = 2
    /\ next_trade_id = 3

\* C13: handling a valid register_escrow request creates the maker's funding
\* request, the one named in the response and in the new pending trade, with
\* amount trade_amount_sat if the payment direction is SENDING and
\* bond_amount_sat if it is RECEIVING.
FundingAmountByDirection ==
    [][\A request \in RegisterRequests \ InvalidRequests, sender_pubkey \in SenderPubkeys,
         request_event_id \in RequestEventIds :
            register_escrow(request, sender_pubkey, request_event_id)
            => /\ BagCardinality(replies') = 1
               /\ \A m \in DOMAIN replies' :
                    /\ ~m.content.error
                    /\ m.recipient_pubkey = sender_pubkey
                    /\ m.content.bolt11_invoice
                            = MakerKeyOf(pending_trades'[Len(pending_trades')])
                    /\ m.content.trade_id = pending_trades'[Len(pending_trades')].id
                    /\ m.content.bolt11_invoice \notin DOMAIN wallet_requests
                    /\ m.content.bolt11_invoice \in DOMAIN wallet_requests'
                    /\ wallet_requests'[m.content.bolt11_invoice].amount_sat
                            = (IF request.payment_direction = SENDING
                               THEN request.trade_amount_sat
                               ELSE request.bond_amount_sat)]_vars

\* a SENDING and a RECEIVING maker have registered: the first funding request
\* is for the trade amount, the second for the bond
FundingAmountByDirectionWitness ==
    /\ Len(pending_trades) = 2
    /\ wallet_requests[MakerKeyOf(pending_trades[1])].amount_sat
            = pending_trades[1].contract.trade_amount_sat
    /\ wallet_requests[MakerKeyOf(pending_trades[2])].amount_sat
            = pending_trades[2].contract.bond_sat
    /\ pending_trades[2].contract.bond_sat # pending_trades[2].contract.trade_amount_sat
    /\ \E m \in DOMAIN replies :
            m.content.bolt11_invoice = MakerKeyOf(pending_trades[2])

(***************************************************************************)
(* Properties of the payouts.                                              *)
(***************************************************************************)
InvoiceAge(key) == now - wallet_invoices[key].time

Scheduled(key) == key \in DOMAIN lightning_invoices_to_pay

\* C14: a payment that fails while the invoice is not older than the payout
\* timeout leaves the entry in the schedule; no payment attempt is started for
\* an invoice older than the payout timeout, and an entry that is due with
\* such an invoice, and is not being paid, is removed from the schedule.
PayoutRetry ==
    /\ [][\A key \in InvoiceKeys :
            /\ (paying = key /\ InvoiceAge(key) <= PAYOUT_TIMEOUT_SEC
                    /\ _pay_invoice("failed"))
                => (Scheduled(key))' /\ paying' = 0
            /\ (paying = 0 /\ paying' = key)
                => InvoiceAge(key) <= PAYOUT_TIMEOUT_SEC
            /\ (Scheduled(key) /\ InvoiceAge(key) > PAYOUT_TIMEOUT_SEC
                    /\ _pay_pending_lightning_invoices(key))
                => ~(Scheduled(key))' /\ paying' = 0]_vars
    /\ \A key \in InvoiceKeys :
            (Scheduled(key) /\ now >= lightning_invoices_to_pay[key]
                /\ paying # key /\ InvoiceAge(key) > PAYOUT_TIMEOUT_SEC)
            ~> ~Scheduled(key)

\* An entry whose attempts have failed is still scheduled, and is due when its
\* invoice has become older than the payout timeout.
PayoutRetryWitness ==
    \E key \in InvoiceKeys :
        /\ Scheduled(key)
        /\ paying = 0
        /\ attempts[key] = MaxAttempts
        /\ lightning_invoices_to_pay[key] = now
        /\ InvoiceAge(key) > PAYOUT_TIMEOUT_SEC

(***************************************************************************)
(* Properties of the client.                                               *)
(***************************************************************************)
\* C15: for a cached identity, a valid profile (status) event not newer than
\* the cached profile (status) leaves the cache unchanged, and a newer one
\* replaces the profile (the liquidity figures) and its timestamp.
ProfileStatusLastWriteWins ==
    [][\A event \in Events :
        (/\ event.pubkey \in DOMAIN agent_infos
         /\ event.content # "invalid"
         /\ event.net = "local"
         /\ _fetch_agent_events_event(event))
        => LET info == agent_infos[event.pubkey] IN
           /\ (event.kind = AGENT_PROFILE_EVENT_KIND /\ info.profile_ts # None)
              => IF event.created_at <= info.profile_ts[1]
                 THEN agent_infos' = agent_infos
                 ELSE agent_infos' =
                        [agent_infos EXCEPT ![event.pubkey] =
                            [info EXCEPT !.profile_info = Some(event.content),
                                         !.profile_ts = Some(event.created_at)]]
           /\ (event.kind = AGENT_STATUS_EVENT_KIND /\ info.status_ts # None)
              => IF event.created_at <= info.status_ts[1]
                 THEN agent_infos' = agent_infos
                 ELSE agent_infos' =
                        [agent_infos EXCEPT ![event.pubkey] =
                            [info EXCEPT !.liquidity = Some(event.content),
                                         !.status_ts = Some(event.created_at)]]]_vars

\* A profile and a status have been replaced by newer ones, and the loop is
\* about to handle a further event.
ProfileStatusLastWriteWinsWitness ==
    /\ "A" \in DOMAIN agent_infos
    /\ agent_infos["A"].profile_ts = Some(MaxTs)
    /\ agent_infos["A"].status_ts = Some(MaxTs)
    /\ agent_infos["A"].profile_info = Some("c2")
    /\ agent_infos["A"].liquidity = Some("c2")
    /\ client_pc = "get"
    /\ event_queue # <<>>
    /\ Head(event_queue) = "event"

\* C16: the cached relay list of an identity is the one carried by the
\* relay-list event with the greatest timestamp among those handled.
RelayListLastWriteWins ==
    \A pubkey \in DOMAIN relay_latest :
        /\ pubkey \in DOMAIN agent_infos
        /\ agent_infos[pubkey].relays = Some(relay_latest[pubkey].relays)

\* C17: handling an event whose author is not in the configured trusted set
\* leaves the cache unchanged.
UntrustedAuthorIgnored ==
    [][\A event \in Events :
        (event.pubkey \notin storage_agents /\ _fetch_agent_events_event(event))
        => agent_infos' = agent_infos]_vars

\* C18: handling an event that carries the tag of another network leaves the
\* cache unchanged.
WrongNetworkIgnored ==
    [][\A event \in Events :
        (event.net = "other" /\ _fetch_agent_events_event(event))
        => agent_infos' = agent_infos]_vars

\* C20: save_new_trade stores the trade iff the id is new, the trade names a
\* funding invoice and the wallet reports it paid; otherwise it raises and
\* the map is unchanged.  Every stored trade was paid when it was saved.
SaveNewTradeGuarded ==
    /\ [](\A trade_id \in DOMAIN client_trades :
            /\ client_trades[trade_id].funding_invoice_key # None
            /\ client_trades[trade_id].funding_status = "PR_PAID")
    /\ [][\A trade_id \in TradeIds, funding_invoice_key \in {None, Some("k1"), Some("k2")},
            status \in {"missing", "PR_UNPAID", "PR_PAID"} :
            save_new_trade(trade_id, funding_invoice_key, status)
            => IF /\ trade_id \notin DOMAIN client_trades
                  /\ funding_invoice_key # None
                  /\ status = "PR_PAID"
               THEN /\ DOMAIN client_trades' = DOMAIN client_trades \cup {trade_id}
                    /\ client_trades'[trade_id].funding_invoice_key = funding_invoice_key
                    /\ \A t \in DOMAIN client_trades : client_trades'[t] = client_trades[t]
                    /\ client_exc' = "none"
               ELSE /\ client_trades' = client_trades
                    /\ client_exc' = "AssertionError"]_vars

\* A trade is stored and a later save_new_trade has failed.
SaveNewTradeGuardedWitness ==
    /\ Cardinality(DOMAIN client_trades) >= 2
    /\ client_exc = "AssertionError"

\* the job of the last subscription is queued, launched or running
LiveSubscription ==
    /\ fetch_job_id # 0
    /\ job_state[fetch_job_id] \in {"queued", "created", "running"}

\* the subscription held is the one for the trusted set
Synced ==
    IF storage_agents = {}
    THEN ~LiveSubscription
    ELSE LiveSubscription /\ query_authors[fetch_job_id] = storage_agents

\* no job id is left for a further subscription
JobIdsExhausted == Cardinality(Submitted) = MaxJobs

\* C19: whenever the subscription held differs from the one for the trusted
\* set, the discovery loop eventually holds the subscription for the trusted
\* set (none while the set is empty).
ResubscribedAfterReload == ~Synced ~> (Synced \/ JobIdsExhausted)

\* the ids of a sequence of trades are pairwise different
DistinctIds(ts) == \A i, j \in 1..Len(ts) : ts[i].id = ts[j].id => i = j

\* C29: in every reachable state of the agent no trade id is a key of both
\* the pending set and the persisted map, no id names two trades, and every
\* id issued so far is below the next id to be issued, so that an id once
\* issued is never issued again.
TradeIdsDisjointUnique ==
    /\ Ids(pending_trades) \cap Ids(trades) = {}
    /\ DistinctIds(pending_trades)
    /\ DistinctIds(trades)
    /\ \A id \in Ids(pending_trades) \cup Ids(trades) : id < next_trade_id

\* A funded trade has been moved to the persisted map while later trades
\* are pending.
TradeIdsDisjointUniqueWitness ==
    /\ Len(trades) >= 1
    /\ Len(pending_trades) >= 1
    /\ \E i \in 1..Len(pending_trades) :
            \A k \in 1..Len(trades) : pending_trades[i].id > trades[k].id

\* C30: a PAID notification of the agent's own wallet whose key matches no
\* pending maker funding request but is the maker funding key of a trade
\* already moved to the persisted map (a repeated notification) leaves the
\* pending set and the persisted map unchanged and raises no error.
RepeatedPaidIgnored ==
    [][\A key \in Keys :
        (/\ agent_callbacks
         /\ \A i \in 1..Len(pending_trades) : MakerKeyOf(pending_trades[i]) # key
         /\ \E i \in 1..Len(trades) : MakerKeyOf(trades[i]) = key
         /\ request_status("self", key, "PR_PAID"))
        => (/\ exc' = "none"
            /\ UNCHANGED <<pending_trades, trades>>)]_vars

SignatureBindsContract ==
    verified # None =>
        (verified[1].valid <=>
            (/\ verified[1].contract = signed_contract[1]
             /\ verified[1].pubkey = PubkeyOf(signed_privkey[1])))

\* C21: every call of request_register_escrow uses a key index that differs
\* from the index of every earlier call: the indices strictly increase from
\* call to call, whatever became of the earlier registrations.
KeyIndicesIncrease ==
    \A i, j \in 1..Len(req_key_ids) : i < j => req_key_ids[i] < req_key_ids[j]

\* C22: a call of request_register_escrow that waits for the response ends;
\* it ends on a timeout and on an undecodable response with a user-facing
\* error; and whenever it has ended its request event has been broadcast
\* exactly once and no subscription job of it is left uncancelled.
RequestTerminates ==
    /\ (req_pc = "waiting") ~> (req_pc = "done")
    /\ [](req_pc = "done" =>
            /\ req_broadcasts = 1
            /\ req_job = "none"
            /\ req_uncancelled = 0)
    /\ [][(\/ await_response_timeout
           \/ (/\ req_queue # <<>>
               /\ Head(req_queue).pubkey = "agent"
               /\ ~Head(req_queue).content.dict
               /\ await_response_get))
          => req_exc' = "UserFacingException"]_vars

\* the response at the head of the queue is a well-formed success response
\* of the agent with a funding invoice the wallet does not know
SuccessResponseNext ==
    /\ req_pc = "waiting"
    /\ req_queue # <<>>
    /\ Head(req_queue).pubkey = req_trade_in[1].escrow_agent_pubkey
    /\ Head(req_queue).content.dict
    /\ Head(req_queue).content.error = None
    /\ Head(req_queue).content.trade_id # None
    /\ Head(req_queue).content.bolt11_invoice # None
    /\ InvoiceKey(Head(req_queue).content.bolt11_invoice[1]) # None
    /\ InvoiceKey(Head(req_queue).content.bolt11_invoice[1])[1] \notin client_invoices
    /\ req_trade_in[1].payment_protocol = BITCOIN_LIGHTNING

\* C23: when the call receives a well-formed success response, it saves the
\* funding invoice in the wallet and returns the response with the trade id
\* and the invoice, and the trade with the invoice key and the key the
\* request was signed with.
RegisterSuccessReturnsTrade ==
    [][(SuccessResponseNext /\ await_response_get)
        => LET key == InvoiceKey(Head(req_queue).content.bolt11_invoice[1])[1] IN
           /\ req_exc' = "none"
           /\ req_returned' # None
           /\ key \in client_invoices'
           /\ req_returned'[1].response.trade_id = Head(req_queue).content.trade_id[1]
           /\ req_returned'[1].response.funding_invoice = key
           /\ req_returned'[1].trade.funding_invoice_key = Some(key)
           /\ req_returned'[1].trade._private_key = req_privkey]_vars

\* C24: create_trade_from_postbox called with a token that differs from a
\* valid token in one flipped data bit raises ValueError and has submitted
\* no job to the relay scheduler.
BadChecksumFailsEarly ==
    [][\A postbox_key \in FlippedTokens :
        create_trade_from_postbox(postbox_key)
        => /\ pb_exc' = "ValueError"
           /\ pb_pc' = "done"
           /\ pb_jobs' = 0
           /\ pb_uncancelled' = pb_uncancelled
           /\ pb_result' = None]_vars

\* The maker's token with one bit flipped has been passed and rejected.
BadChecksumFailsEarlyWitness ==
    /\ pb_postbox_key # None
    /\ pb_token # None
    /\ pb_token # pb_postbox_key
    /\ \E i \in 1..4, k \in 0..4 :
            pb_token[1] = [pb_postbox_key[1] EXCEPT !.data[i] = FlipBit(@, k)]
    /\ pb_pc = "done"
    /\ pb_exc = "ValueError"
    /\ pb_jobs = 0

\* the taker waits with the maker's token, and event is the maker's message
MakerEventNext(event) ==
    /\ pb_pc = "waiting"
    /\ pb_postbox_key # None
    /\ pb_token = pb_postbox_key
    /\ event \in pb_events
    /\ event.pubkey = PubkeyOf(pb_maker_trade[1]._private_key[1])

\* C25: when the taker has called create_trade_from_postbox with the token
\* the maker's create_trade_postbox returned for trade T and receives the
\* maker's message, the trade returned has T's contract, the payment
\* direction opposite to T's, T's agent public key, payment protocol and
\* protocol version, and the maker's signature verifies for its contract.
PostboxRoundTrip ==
    [][\A event \in pb_events :
        (MakerEventNext(event) /\ postbox_receive(event))
        => /\ pb_result' # None
           /\ pb_result'[1].contract = pb_maker_trade[1].contract
           /\ pb_result'[1].payment_direction \in {SENDING, RECEIVING}
           /\ pb_result'[1].payment_direction # pb_maker_trade[1].payment_direction
           /\ pb_result'[1].escrow_agent_pubkey = pb_maker_trade[1].escrow_agent_pubkey
           /\ pb_result'[1].payment_protocol = pb_maker_trade[1].payment_protocol
           /\ pb_result'[1].trade_protocol_version
                    = pb_maker_trade[1].trade_protocol_version
           /\ TradeContract_verify(pb_result'[1].contract,
                                   event.content.msg.maker_contract_sig,
                                   event.pubkey)]_vars

\* The taker has got a trade from the maker's token while only the maker's
\* message is on the relays.
PostboxRoundTripWitness ==
    /\ pb_postbox_key # None
    /\ pb_token = pb_postbox_key
    /\ Cardinality(pb_events) = 1
    /\ pb_pc = "done"
    /\ pb_result # None
    /\ pb_result[1].state = ONGOING
    /\ pb_result[1].payment_direction = SENDING
    /\ pb_maker_trade[1].payment_direction = RECEIVING

\* C26: create_trade_from_postbox returns a trade only if the maker
\* signature of the received content verifies for its contract and the
\* author of the event, its network is the local network, its protocol
\* version is the supported version and its payment protocol is a
\* supported one.
PostboxContentChecked ==
    [][\A event \in pb_events :
        (pb_pc = "waiting" /\ postbox_receive(event) /\ pb_result' # None)
        => /\ TradeContract_verify(event.content.msg.contract,
                                   event.content.msg.maker_contract_sig,
                                   event.pubkey)
           /\ event.content.msg.payment_network = "local"
           /\ event.content.msg.trade_protocol_version = PROTOCOL_VERSION
           /\ event.content.msg.payment_protocol \in SUPPORTED_PAYMENT_PROTOCOLS]_vars

\* C31: no inbound request event terminates the request dispatcher: after
\* taking any event off the queue (undecryptable, not JSON, not an object,
\* unknown method, or any method of the RPC enumeration) the dispatcher
\* task is still running and takes the next event.
DispatcherSurvives ==
    [][\A event \in InboundEvents :
            event_queue_get(event) => subtasks'[HANDLE_REQUESTS] = "running"]_vars

\* C32: at every moment at most one manager context (relay session) is
\* entered and not yet exited, also after a proxy change has restarted the
\* driver with jobs still queued, and every running job was launched by the
\* driver that holds the open session.
OpenSessions == (IF session THEN 1 ELSE 0) + closing

AtMostOneSessionOpen ==
    /\ OpenSessions <= 1
    /\ opens - closes = OpenSessions
    /\ running_tasks # {} => session

\* C33: every trade of the pending set and of the persisted map satisfies
\* the contract bounds: a title of 1 to MAX_TITLE_LEN_CHARS characters,
\* terms of 1 to MAX_CONTRACT_LEN_CHARS characters, a trade amount of at
\* least MIN_TRADE_AMOUNT_SAT and a bond amount of at least 0.
ContractBounds ==
    \A ts \in {pending_trades, trades} : \A i \in 1..Len(ts) :
        /\ ts[i].contract.title_len \in 1..MAX_TITLE_LEN_CHARS
        /\ ts[i].contract.contract_len \in 1..MAX_CONTRACT_LEN_CHARS
        /\ ts[i].contract.trade_amount_sat >= MIN_TRADE_AMOUNT_SAT
        /\ ts[i].contract.bond_sat >= 0

\* C34: when a payout attempt completes, the schedule entry of its invoice
\* is absent if the payment succeeded or raised an exception, and present
\* with the time now + PAYOUT_INTERVAL_SEC if the payment reported failure;
\* the entries of the other invoices are unchanged.
PayoutAttemptOutcome ==
    [][\A outcome \in {"success", "failed", "exception"} :
        _pay_invoice(outcome) =>
            /\ outcome \in {"success", "exception"}
                => paying \notin DOMAIN lightning_invoices_to_pay'
            /\ outcome = "failed"
                => /\ paying \in DOMAIN lightning_invoices_to_pay'
                   /\ lightning_invoices_to_pay'[paying] = now + PAYOUT_INTERVAL_SEC
            /\ DOMAIN lightning_invoices_to_pay' \ {paying}
                    = DOMAIN lightning_invoices_to_pay \ {paying}
            /\ \A key \in DOMAIN lightning_invoices_to_pay \ {paying} :
                    lightning_invoices_to_pay'[key] = lightning_invoices_to_pay[key]]_vars

PayoutAttemptOutcomeWitness ==
    /\ paying = 0
    /\ \E key \in DOMAIN lightning_invoices_to_pay :
        /\ attempts[key] >= 1
        /\ lightning_invoices_to_pay[key] = now + PAYOUT_INTERVAL_SEC
        /\ \E other \in DOMAIN lightning_invoices_to_pay :
            other # key /\ lightning_invoices_to_pay[other] <= now

\* C35: no payout invoice is paid twice by the retry loop: a payment attempt
\* for an invoice is not started while an earlier attempt for the same
\* invoice is still in flight, nor after an attempt for it has succeeded.
NoSecondPayment ==
    [][\A key \in InvoiceKeys :
        (_pay_pending_lightning_invoices(key) /\ paying' = key)
            => (paying # key /\ key \notin paid)]_vars

\* C36: a pending trade whose maker funding request has expired is, unless
\* the request is reported paid (the trade is then persisted), eventually
\* out of the pending set with its funding request deleted from the wallet;
\* a pass of the janitor leaves the pending trades whose funding request has
\* not expired, and their requests, as they are.
PendingKeys == {pending_trades[i].trade_participants.maker.funding_request_key : i \in 1..Len(pending_trades)}

FundedKeys == {trades[i].trade_participants.maker.funding_request_key : i \in 1..Len(trades)}

JanitorRemovesExpired ==
    /\ \A key \in Keys :
        (key \in PendingKeys /\ has_expired(wallet_requests[key]))
            ~> \/ key \notin PendingKeys /\ key \notin DOMAIN wallet_requests
               \/ key \in FundedKeys
    /\ [][_cleanup_pending_trades_funding_expired =>
            /\ pending_trades' = SelectSeq(pending_trades,
                    LAMBDA t : ~has_expired(
                        wallet_requests[t.trade_participants.maker.funding_request_key]))
            /\ \A key \in PendingKeys :
                    ~has_expired(wallet_requests[key])
                        => /\ key \in DOMAIN wallet_requests'
                           /\ wallet_requests'[key] = wallet_requests[key]
            /\ trades' = trades]_vars

\* the janitor has removed trade 1 and left trade 2, registered later
JanitorRemovesExpiredWitness ==
    /\ Len(pending_trades) = 1
    /\ pending_trades[1].id = 2
    /\ trades = <<>>
    /\ DOMAIN wallet_requests = {MakerKey(2)}
    /\ ~has_expired(wallet_requests[MakerKey(2)])

\* C37: the output queue of a subscription job receives at most one
\* end-of-stream sentinel None of that job, counting the one still to be
\* put, and no event of the job follows the sentinel, whether the stream
\* ended, the job was cancelled or the session was torn down.
Sentinels(j) == Len(SelectSeq(output_queue[j], LAMBDA x : x = "None"))

OneSentinelLast ==
    \A j \in Jobs :
        /\ Sentinels(j) + put_tasks[j] <= 1
        /\ \A i \in 1..Len(output_queue[j]) :
                output_queue[j][i] = "None" => i = Len(output_queue[j])
        /\ (Sentinels(j) + put_tasks[j] = 1) => job_state[j] \in DoneStates

\* job 1 was torn down with the session, job 2 was cancelled: each queue
\* holds an event and then the sentinel
OneSentinelLastWitness ==
    /\ job_state[1] = "torn_down" /\ output_queue[1] = <<"event", "None">>
    /\ job_state[2] = "cancelled" /\ output_queue[2] = <<"event", "None">>

\* C38: no lost wakeup: a job that is queued while the scheduler is started
\* is eventually launched, unless cancel_job removes it from the queue or
\* the scheduler is stopped; this holds for jobs submitted during the grace
\* wait, while the session closes, while opening the session fails and is
\* retried, and for jobs still queued when a proxy change restarts the driver.
NoLostWakeup ==
    \A j \in Jobs :
        (job_state[j] = "queued" /\ main_task)
            ~> (launches[j] = 1 \/ job_state[j] = "removed" \/ ~main_task)

\* after a session error that tore down job 1 and a proxy restart, job 2
\* runs on the session the new driver has opened while the session of the
\* cancelled driver is still closing
NoLostWakeupWitness ==
    /\ main_task /\ callbacks
    /\ session_errors
    /\ job_state[1] = "torn_down"
    /\ job_state[2] = "running" /\ launches[2] = 1
    /\ closing = 1 /\ session /\ opens = 2

\* C39: every entry of the payout schedule is eventually removed from it,
\* also when the actor is stopped while a payment attempt for the entry is
\* in flight and is started again later.  Within the horizon of the model
\* this reads: the entry is eventually removed, or it is still being retried
\* (its next-attempt time is a time, not a guard value) when the clock or
\* the attempts of the model are used up.
StillRetried(key) ==
    /\ key \in DOMAIN lightning_invoices_to_pay
    /\ lightning_invoices_to_pay[key] < PAYOUT_LOCK
    /\ now = MaxPayoutTime \/ attempts[key] = MaxAttempts

NoOrphanFundingRequest ==
    \A key \in DOMAIN wallet_requests :
        key \notin {MakerKeyOf(trades[i]) : i \in 1..Len(trades)}
            => Cardinality({i \in 1..Len(pending_trades) :
                                MakerKeyOf(pending_trades[i]) = key}) = 1

====
